---- MODULE Spec2Model ----
(***************************************************************************)
(* Foundation-project provisioning (gcp-tools/mcp).                        *)
(*                                                                         *)
(* The model follows lib/setup-foundation-project (runFoundationProject,   *)
(* its Command Executor run/fail, the six state probes and the CLI entry   *)
(* point) and handlers/tool/run-foundation-project-handler.                *)
(*                                                                         *)
(* Strings are sequences of tokens (a token is a TLA+ string): the empty   *)
(* string is <<>>, concatenation is \o, and split / trim / join / endsWith *)
(* / RegExp.test are computed over the tokens the way the code computes    *)
(* them over characters.                                                   *)
(***************************************************************************)
EXTENDS Integers, Naturals, Sequences, FiniteSets, TLC

\* ------------------------------------------------------------------ bounds
\* Number of non-overlapping invocations in one behaviour.
MaxRuns == 2
\* Largest value of the clock (Math.floor(Date.now() / 1000)).
MaxClock == 1

\* ----------------------------------------------------------------- strings
\* A field that is absent from the arguments object (undefined).
Missing == <<"<undefined>">>

\* Template-literal interpolation `${v}`.
Str(v) == IF v = Missing THEN <<"undefined">> ELSE v

IsSpace(t) == t \in {" ", "\n"}

RECURSIVE TrimStart(_)
TrimStart(s) == IF s # <<>> /\ IsSpace(Head(s)) THEN TrimStart(Tail(s)) ELSE s

RECURSIVE TrimEnd(_)
TrimEnd(s) ==
  IF s # <<>> /\ IsSpace(s[Len(s)]) THEN TrimEnd(SubSeq(s, 1, Len(s) - 1)) ELSE s

\* String.prototype.trim
Trim(s) == TrimEnd(TrimStart(s))

\* String.prototype.split(sep): "" splits to [""], "a," to ["a", ""].
RECURSIVE Split(_, _)
Split(s, sep) ==
  IF \E i \in 1..Len(s) : s[i] = sep
  THEN LET i == CHOOSE k \in 1..Len(s) :
                   s[k] = sep /\ \A j \in 1..(k - 1) : s[j] # sep
       IN  <<SubSeq(s, 1, i - 1)>> \o Split(SubSeq(s, i + 1, Len(s)), sep)
  ELSE <<s>>

NonEmptyStr(s) == s # <<>>

\* .split(sep).map((s) => s.trim()).filter(Boolean)
SplitTrimFilter(s, sep) ==
  LET parts == Split(s, sep)
      trimmed == [i \in 1..Len(parts) |-> Trim(parts[i])]
  IN  SelectSeq(trimmed, NonEmptyStr)

\* .split(sep).map((s) => s.trim())
SplitTrim(s, sep) ==
  LET parts == Split(s, sep) IN [i \in 1..Len(parts) |-> Trim(parts[i])]

\* Array.prototype.join(sep)
RECURSIVE Join(_, _)
Join(list, sep) ==
  IF list = <<>> THEN <<>>
  ELSE IF Len(list) = 1 THEN list[1]
  ELSE list[1] \o <<sep>> \o Join(Tail(list), sep)

\* String.prototype.endsWith
EndsWith(s, suffix) ==
  /\ Len(suffix) <= Len(s)
  /\ SubSeq(s, Len(s) - Len(suffix) + 1, Len(s)) = suffix

\* String.prototype.includes for a one-token needle
Includes(s, t) == \E i \in 1..Len(s) : s[i] = t

\* Array.prototype.includes
ArrayIncludes(list, x) == \E i \in 1..Len(list) : list[i] = x

\* The tokens that \d+ matches.
Digits == {ToString(n) : n \in 0..MaxClock}

\* new RegExp(`^${projectName}-fdn(-\\d+)?$`).test(id)
ProjectRegexTest(projectName, id) ==
  LET base == Str(projectName) \o <<"-fdn">>
  IN  \/ id = base
      \/ /\ Len(id) > Len(base) + 1
         /\ SubSeq(id, 1, Len(base)) = base
         /\ id[Len(base) + 1] = "-"
         /\ \A i \in (Len(base) + 2)..Len(id) : id[i] \in Digits

\* Mutant of FindExisting: the regex without the optional timestamp suffix.
FindExistingExact(projects, projectName) ==
  IF \E i \in 1..Len(projects) : projects[i] = Str(projectName) \o <<"-fdn">>
  THEN Str(projectName) \o <<"-fdn">>
  ELSE <<>>

\* Mutant of FindExisting: the last element that passes.
FindExistingLast(projects, projectName) ==
  IF \E i \in 1..Len(projects) : ProjectRegexTest(projectName, projects[i])
  THEN projects[CHOOSE i \in 1..Len(projects) :
                  /\ ProjectRegexTest(projectName, projects[i])
                  /\ \A j \in (i + 1)..Len(projects) :
                        ~ProjectRegexTest(projectName, projects[j])]
  ELSE <<>>

\* Array.prototype.find: the first element that passes, <<>> for undefined.
FindExisting(projects, projectName) ==
  IF \E i \in 1..Len(projects) : ProjectRegexTest(projectName, projects[i])
  THEN projects[CHOOSE i \in 1..Len(projects) :
                  /\ ProjectRegexTest(projectName, projects[i])
                  /\ \A j \in 1..(i - 1) : ~ProjectRegexTest(projectName, projects[j])]
  ELSE <<>>

\* -------------------------------------------------------------- constants
\* Mutant of apis: one API is listed twice.
apisWithRepeat ==
  << "cloudresourcemanager.googleapis.com", "cloudbilling.googleapis.com",
     "iam.googleapis.com", "iam.googleapis.com", "compute.googleapis.com",
     "sts.googleapis.com", "iamcredentials.googleapis.com" >>

apis == << "cloudresourcemanager.googleapis.com", "cloudbilling.googleapis.com",
           "iam.googleapis.com", "compute.googleapis.com", "sts.googleapis.com",
           "iamcredentials.googleapis.com" >>

projectRoles == << "roles/viewer", "roles/iam.serviceAccountAdmin" >>

orgRoles == << "roles/resourcemanager.projectCreator",
               "roles/resourcemanager.projectDeleter",
               "roles/iam.serviceAccountAdmin",
               "roles/serviceusage.serviceUsageAdmin",
               "roles/resourcemanager.projectIamAdmin",
               "roles/storage.admin",
               "roles/compute.admin",
               "roles/compute.networkAdmin",
               "roles/vpcaccess.admin",
               "roles/compute.xpnAdmin",
               "roles/secretmanager.admin",
               "roles/cloudsql.admin",
               "roles/pubsub.admin",
               "roles/run.admin",
               "roles/cloudfunctions.admin",
               "roles/apigateway.admin",
               "roles/spanner.admin",
               "roles/datastore.owner",
               "roles/artifactregistry.admin" >>

pools == << "dev", "test", "sbx", "prod" >>

githubProviderId == <<"github-actions-provider">>
localDevProviderId == <<"local-developer-provider">>

\* poolIds = pools.map((env) => `${projectName}-${env}-pool`)
PoolId(projectName, i) == Str(projectName) \o <<"-", pools[i], "-pool">>

ServiceAccountName(projectName) == Str(projectName) \o <<"-sa">>

ServiceAccountEmail(projectName, pid) ==
  ServiceAccountName(projectName) \o <<"@">> \o pid \o <<".iam.gserviceaccount.com">>

\* Mutant of BucketName: another suffix.
BucketNameState(pid) == pid \o <<"-state">>

BucketName(pid) == pid \o <<"-terraform-state">>

\* `${projectName}-fdn-${timestamp}`
FreshProjectId(projectName, ts) == Str(projectName) \o <<"-fdn", "-", ToString(ts)>>

\* ---------------------------------------------------------------- requests
Base == [ projectName       |-> <<"p">>,
          orgId             |-> <<"123">>,
          billingAccount    |-> <<"B1">>,
          regions           |-> <<"eu">>,
          githubIdentity    |-> <<"my-org">>,
          developerIdentity |-> <<"dev@co.com">>,
          ownerEmails       |-> <<"a@co.com">> ]

\* Longest regions string (in tokens) the entry points are given.
MaxRegionsLen == 2

RegionTokens == {",", " ", "eu"}

RegionStrings ==
  UNION { [1..n -> RegionTokens] : n \in 0..MaxRegionsLen }

\* The requests that are rerun: the other ones are given to one invocation.
MainRequests ==
  { Base,
    [Base EXCEPT !.regions = <<"eu", ",", " ", "eu">>,
                 !.githubIdentity = <<"my-org", "/", "my-repo">>] }

\* The argument objects the entry points are given: the base request, the
\* base request with every regions string, and the base request with one
\* other field empty or absent.
Requests ==
  MainRequests
  \cup { [Base EXCEPT !.regions = r] : r \in RegionStrings \cup {Missing} }
  \cup { [Base EXCEPT !.projectName = v] : v \in {<<>>, Missing} }
  \cup { [Base EXCEPT !.billingAccount = v] : v \in {<<>>} }
  \cup { [Base EXCEPT !.orgId = v] : v \in {<<>>} }
  \cup { [Base EXCEPT !.ownerEmails = v] : v \in {<<>>, Missing} }
  \cup { [Base EXCEPT !.developerIdentity = v] : v \in {<<>>} }
  \cup { [Base EXCEPT !.githubIdentity = v] : v \in {<<>>, <<"my-org", "/", "my-repo">>} }

Fields == { "projectName", "orgId", "billingAccount", "regions",
            "githubIdentity", "developerIdentity", "ownerEmails" }

\* getEnvOrArg: process.env[name] || process.argv[index] || ''
getEnvOrArg(v) == IF v = Missing THEN <<>> ELSE v

\* regions.split(',').map((r) => r.trim()).filter(Boolean)
RegionList(regions) == SplitTrimFilter(regions, ",")

\* InputSchema.safeParse(rawInputs).success
InputSchemaOk(raw) ==
  /\ \A f \in Fields : raw[f] # Missing /\ Len(raw[f]) >= 1
  /\ Len(RegionList(raw.regions)) > 0

\* ------------------------------------------------------------------- state
VARIABLES
  account,              \* the remote cloud account (the only durable state)
  created,              \* project ids created by the runs of this behaviour
  now,                  \* the clock, in seconds
  runs,                 \* invocations started so far
  serverAlive,          \* the serving (request/response) process is running
  args,                 \* the arguments object the caller passes
  entry,                \* entry path of the current run: "none", "cli", "handler"
  req,                  \* args of the current runFoundationProject call
  pc,                   \* position of the current run
  idx,                  \* index of the current loop (1-based)
  timestamp,            \* const timestamp
  projects,             \* const projects (result of listProjects), kept until
                        \* the step after the find: nothing reads it later
  projectId,            \* let projectId
  serviceAccountEmail,  \* let serviceAccountEmail
  bucketName,           \* let bucketName
  projectNumber,        \* const projectNumber
  trace,                \* external commands the current run has issued
  lastExec,             \* what the latest exec(cmd) settled with
  lastError,            \* what fail / the CLI validation wrote to stderr
  exitCode,             \* process.exit status of the current run, -1 if none
  result,               \* value runFoundationProject resolved with
  handlerStatus,        \* status of the object runFoundationProjectHandler returned
  prev,                 \* how the previous run ended
  inflight,             \* external processes the current run spawned that have
                        \* not settled yet
  reliable,             \* the remote side settles the commands of the current run
                        \* as the account dictates: no transient failure and no
                        \* empty output of a command that was carried out
  other,                \* the invocation that overlaps the current one, if any:
                        \* its position, locals and outcome while the event loop
                        \* (or the other process) is running the current one
  host,                 \* the developer machine and the GitHub side: installed
                        \* tools, logins, repositories, environments, settings
  calls,                \* setup tool calls served so far
  tool,                 \* the setup tool being served, "none" if none
  setupArgs,            \* args of completeProjectSetup
  repoArgs,             \* args of createGitHubRepo
  secretsInput,         \* input of setupGitHubSecrets
  spc,                  \* position of the setup tool being served
  sidx,                 \* index of its current loop (1-based)
  gtrace,               \* external commands the setup tool call has issued
  summary,              \* const summary of installPrerequisites
  repoResult,           \* what createGitHubRepo returned
  envResult,            \* what createGitHubEnvironments returned
  secretsResult,        \* what setupGitHubSecrets returned (results while it runs)
  skeletonResult,       \* what createSkeletonApp returned
  setupResult,          \* what completeProjectSetup returned
  pollParams,           \* the parameters of the pollGithubDeployment call
  ppc,                  \* position of the pollGithubDeployment call
  clock,                \* Date.now(), in seconds
  deadline,             \* const deadline
  wake,                 \* when the timer of the pending sleep(ms) fires
  lastConclusion,       \* let lastConclusion
  lastRunId,            \* let lastRunId
  polls,                \* the listings of the call: when the loop condition
                        \* let each through, and what it settled with
  pollResult            \* what pollGithubDeployment resolved with

progVars == << account, created, now, runs, serverAlive, args, entry, req, pc, idx,
               timestamp, projects, projectId, serviceAccountEmail, bucketName,
               projectNumber, trace, lastExec, lastError, exitCode, result, handlerStatus, prev,
               inflight, reliable, other, host, calls, tool, setupArgs, repoArgs,
               secretsInput, spc, sidx, gtrace, summary, repoResult, envResult,
               secretsResult, skeletonResult, setupResult >>

pollVars == << pollParams, ppc, clock, deadline, wake, lastConclusion, lastRunId, polls,
              pollResult >>

vars == << progVars, pollVars >>

\* The state of the setup tools (handlers/tool).
setupVars == << host, calls, tool, setupArgs, repoArgs, secretsInput, spc, sidx, gtrace,
               summary, repoResult, envResult, secretsResult, skeletonResult,
               setupResult, pollVars >>

locals == << timestamp, projects, projectId, serviceAccountEmail, bucketName,
             projectNumber >>

NoAccount == [ projects  |-> {},    \* project ids
               billing   |-> {},    \* <<projectId, billingAccountId>>
               sas       |-> {},    \* <<projectId, email>>
               pools     |-> {},    \* <<projectId, poolId>>
               providers |-> {},    \* <<projectId, poolId, providerId>>
               buckets   |-> {} ]   \* bucket names

\* Projects of the account that no run of this behaviour created.
ForeignSets ==
  { { <<"q", "-fdn", "-", "0">>, <<"p", "-fdn", "-", "x">> },
    { <<"p", "-fdn">>, <<"p", "-app">> } }



\* A command line: the gcloud subcommand and the values interpolated into it.
Cmd(op, a, b, c, d, e) == [op |-> op, a |-> a, b |-> b, c |-> c, d |-> d, e |-> e]

NoCmd == Cmd("", <<>>, <<>>, <<>>, <<>>, <<>>)

NoExec == [err |-> FALSE, stdout |-> <<>>]

NoError == [ label |-> <<>>, cmd |-> NoCmd, note |-> "" ]

NoResult == [ ok |-> FALSE,
              projectId |-> <<>>, serviceAccount |-> <<>>, projectNumber |-> <<>>,
              workloadIdentityProviders |-> [env \in {} |-> <<>>],
              terraformStateBucket |-> <<>>, region |-> <<>>, regions |-> <<>>,
              orgId |-> <<>>, billingAccount |-> <<>>, githubIdentity |-> <<>>,
              developerIdentity |-> <<>>, ownerEmails |-> <<>> ]

Finished == {"idle", "returned", "exited"}

\* An invocation: what one call of an entry point holds.
Context(e, r, p, i, ts, ps, pid, sa, bn, pn, tr, lx, le, ec, res, hs, fl, rel) ==
  [ entry |-> e, req |-> r, pc |-> p, idx |-> i, timestamp |-> ts, projects |-> ps,
    projectId |-> pid, serviceAccountEmail |-> sa, bucketName |-> bn,
    projectNumber |-> pn, trace |-> tr, lastExec |-> lx, lastError |-> le,
    exitCode |-> ec, result |-> res, handlerStatus |-> hs, inflight |-> fl,
    reliable |-> rel ]

\* No invocation.
IdleContext ==
  Context("none", Base, "idle", 1, 0, <<>>, <<>>, <<>>, <<>>, <<>>, <<>>, NoExec,
          NoError, -1, NoResult, "none", 0, FALSE)

\* The four prerequisites of installPrerequisites, in list order.
prerequisites == << "terraform", "cdktf-cli", "gcloud", "gh" >>

\* const environments = ['dev', 'test', 'sbx', 'prod']
environments == << "dev", "test", "sbx", "prod" >>

\* A developer machine with every tool installed and both logins in place,
\* and a GitHub side with no repository.
DefaultHost ==
  [ tools      |-> {"terraform", "cdktf-cli", "gcloud", "gh"},
    ghAuth     |-> TRUE,     \* gh is logged in to github.com
    gcloudAuth |-> TRUE,     \* gcloud has an active account
    repos      |-> {},       \* full names owner/name
    envs       |-> {},       \* <<repo, environment>>
    settings   |-> {},       \* <<type, repo, environment or "", name, value>>
    paths      |-> {},       \* directories of skeleton apps
    faults     |-> 0 ]       \* transient command failures so far

\* The repository complete_project_setup creates for the base request.
BaseRepo == <<"my-org", "/", "p">>

\* The machines and GitHub sides a behaviour starts from.
Hosts ==
  { DefaultHost,
    [DefaultHost EXCEPT !.tools = @ \ {"terraform"}],
    [DefaultHost EXCEPT !.tools = @ \ {"gh"}],
    [DefaultHost EXCEPT !.ghAuth = FALSE],
    [DefaultHost EXCEPT !.gcloudAuth = FALSE],
    [DefaultHost EXCEPT !.repos = {BaseRepo}],
    [DefaultHost EXCEPT !.repos = {BaseRepo}, !.ghAuth = FALSE],
    [DefaultHost EXCEPT !.repos = {BaseRepo}, !.envs = {<<BaseRepo, "dev">>}],
    [DefaultHost EXCEPT !.repos = {BaseRepo},
                        !.envs = {<<BaseRepo, e>> : e \in {"dev", "test", "sbx", "prod"}}] }

NoRepoResult == [status |-> "none", repoName |-> <<>>]

NoEnvResult == [status |-> "none", results |-> <<>>]

\* summary: { secretsCreated: 0, variablesCreated: 0, workflowsCreated: 0,
\* totalItems: 0 }
NoSummary ==
  [secretsCreated |-> 0, variablesCreated |-> 0, workflowsCreated |-> 0, totalItems |-> 0]

NoSecretsResult ==
  [status |-> "none", repoName |-> <<>>, results |-> <<>>, summary |-> NoSummary]

NoSetupResult ==
  [ status |-> "none", step1 |-> "pending", step2 |-> "pending", step3 |-> "pending",
    step4 |-> "pending", step5 |-> "pending" ]

NoSecretsInput ==
  [ foundation |-> FALSE, repoName |-> <<>>, githubIdentity |-> <<>>, projectId |-> <<>>,
    serviceAccount |-> <<>>, projectNumber |-> <<>>,
    workloadIdentityProviders |-> [env \in {} |-> <<>>],
    regions |-> <<>>, orgId |-> <<>>, billingAccount |-> <<>>, ownerEmails |-> <<>> ]

\* No setup tool has been called.
SetupIdle ==
  /\ calls = 0
  /\ tool = "none"
  /\ setupArgs = Base
  /\ repoArgs = [repoName |-> <<>>, githubIdentity |-> <<>>]
  /\ secretsInput = NoSecretsInput
  /\ spc = "idle"
  /\ sidx = 1
  /\ gtrace = <<>>
  /\ summary = <<>>
  /\ repoResult = NoRepoResult
  /\ envResult = NoEnvResult
  /\ secretsResult = NoSecretsResult
  /\ skeletonResult = "none"
  /\ setupResult = NoSetupResult

NoPollParams == [ref |-> Missing, interval |-> 0, timeout |-> 0]

NoPollResult == [status |-> "none", conclusion |-> "", runId |-> 0]

\* No call of pollGithubDeployment has been made.
PollIdle ==
  /\ pollParams = NoPollParams
  /\ ppc = "idle"
  /\ clock = 0
  /\ deadline = 0
  /\ wake = 0
  /\ lastConclusion = ""
  /\ lastRunId = 0
  /\ polls = <<>>
  /\ pollResult = NoPollResult


\* The foundation script and its handler before any invocation.
InitRun ==
  /\ \E f \in ForeignSets : account = [NoAccount EXCEPT !.projects = f]
  /\ created = {}
  /\ now = 0
  /\ runs = 0
  /\ serverAlive = TRUE
  /\ args = Base
  /\ entry = "none"
  /\ req = Base
  /\ pc = "idle"
  /\ idx = 1
  /\ timestamp = 0
  /\ projects = <<>>
  /\ projectId = <<>>
  /\ serviceAccountEmail = <<>>
  /\ bucketName = <<>>
  /\ projectNumber = <<>>
  /\ trace = <<>>
  /\ lastExec = NoExec
  /\ lastError = NoError
  /\ exitCode = -1
  /\ result = NoResult
  /\ handlerStatus = "none"
  /\ prev = [ended |-> "none", req |-> Base, result |-> NoResult, account |-> NoAccount]
  /\ inflight = 0
  /\ reliable = FALSE
  /\ other = IdleContext

Init == InitRun /\ host = DefaultHost /\ SetupIdle /\ PollIdle

\* ------------------------------------------------------- external commands
CreateOps == { "projects create", "billing projects link", "service-accounts create",
               "pools create", "providers create-oidc", "buckets create" }

ApplyOps == { "services enable", "projects add-iam-policy-binding",
              "organizations add-iam-policy-binding",
              "billing accounts add-iam-policy-binding",
              "service-accounts add-iam-policy-binding" }

MutatingOps == CreateOps \cup ApplyOps

\* The remote side: a creation command for a resource that is already there
\* exits non-zero.
AlreadyExists(acct, c) ==
  CASE c.op = "projects create"         -> c.a \in acct.projects
    [] c.op = "service-accounts create" ->
         <<c.a, c.b \o <<"@">> \o c.a \o <<".iam.gserviceaccount.com">>>> \in acct.sas
    [] c.op = "pools create"            -> <<c.a, c.b>> \in acct.pools
    [] c.op = "providers create-oidc"   -> <<c.a, c.b, c.c>> \in acct.providers
    [] c.op = "buckets create"          -> c.a \in acct.buckets
    [] OTHER                            -> FALSE

\* The remote side: what a command that exits zero leaves in the account.
Effect(acct, c) ==
  CASE c.op = "projects create" ->
         [acct EXCEPT !.projects = @ \cup {c.a}]
    [] c.op = "billing projects link" ->
         [acct EXCEPT !.billing = {l \in @ : l[1] # c.a} \cup {<<c.a, c.b>>}]
    [] c.op = "service-accounts create" ->
         [acct EXCEPT !.sas = @ \cup
            {<<c.a, c.b \o <<"@">> \o c.a \o <<".iam.gserviceaccount.com">>>>}]
    [] c.op = "pools create" ->
         [acct EXCEPT !.pools = @ \cup {<<c.a, c.b>>}]
    [] c.op = "providers create-oidc" ->
         [acct EXCEPT !.providers = @ \cup {<<c.a, c.b, c.c>>}]
    [] c.op = "buckets create" ->
         [acct EXCEPT !.buckets = @ \cup {c.a}]
    [] OTHER -> acct

\* All orders in which a listing can return the elements of S.
Orders(S) ==
  { f \in [1..Cardinality(S) -> S] : \A x \in S : \E i \in DOMAIN f : f[i] = x }

\* One line per element.
Lines(list) == IF list = <<>> THEN <<>> ELSE Join(list, "\n") \o <<"\n">>

\* The remote side: the project number of a project.
ProjectNumberOf(pid) == <<"#">> \o pid

\* The remote side: the standard outputs a command that exits zero can print.
Outputs(acct, c) ==
  CASE c.op = "projects list" ->
         { Lines(o) : o \in Orders(acct.projects) }
    [] c.op = "billing projects describe" ->
         IF \E l \in acct.billing : l[1] = c.a
         THEN { <<"billingAccounts/">> \o l[2] \o <<"\n">> :
                  l \in {k \in acct.billing : k[1] = c.a} }
         ELSE { <<"\n">> }
    [] c.op = "service-accounts list" ->
         { Lines(o) : o \in Orders({k[2] : k \in {l \in acct.sas : l[1] = c.a}}) }
    [] c.op = "pools describe" ->
         IF <<c.a, c.b>> \in acct.pools THEN { c.b \o <<"\n">> } ELSE {}
    [] c.op = "providers describe" ->
         IF <<c.a, c.b, c.c>> \in acct.providers THEN { c.c \o <<"\n">> } ELSE {}
    [] c.op = "buckets describe" ->
         IF c.a \in acct.buckets THEN { c.a \o <<"\n">> } ELSE {}
    [] c.op = "projects describe" ->
         IF c.a \in acct.projects THEN { <<"\n">>, ProjectNumberOf(c.a) \o <<"\n">> } ELSE {}
    [] OTHER ->
         IF AlreadyExists(acct, c) THEN {} ELSE { <<>>, <<"ok", "\n">> }

\* The read-only commands: the six probes and the project-number lookup.
ReadOps == { "projects list", "billing projects describe", "service-accounts list",
             "pools describe", "providers describe", "buckets describe",
             "projects describe" }

\* The outputs of a command that was carried out, when the remote side is
\* reliable: a probe prints what the account holds, every other command prints
\* something.
ReliableOutputs(acct, c) ==
  IF c.op \in ReadOps \ {"projects describe"}
  THEN Outputs(acct, c)
  ELSE { o \in Outputs(acct, c) : Trim(o) # <<>> }

\* What exec(cmd) settles with: [err, stdout]. Every command may fail; when the
\* remote side is reliable, a command fails only if it cannot be carried out.
ExecOutcomes(acct, c) ==
  IF reliable
  THEN IF ReliableOutputs(acct, c) = {}
       THEN { [err |-> TRUE, stdout |-> <<>>] }
       ELSE { [err |-> FALSE, stdout |-> o] : o \in ReliableOutputs(acct, c) }
  ELSE { [err |-> FALSE, stdout |-> o] : o \in Outputs(acct, c) }
         \cup { [err |-> TRUE, stdout |-> <<>>] }

\* -------------------------------------------------------------- the probes
\* Mutant of listProjects: the listing is dropped.
listProjectsNone(x) == <<>>

listProjects(x) == IF x.err THEN <<>> ELSE SplitTrimFilter(x.stdout, "\n")

\* Mutant of isBillingLinked: equality instead of endsWith.
isBillingLinkedEquals(x, billingAccount) ==
  IF x.err THEN FALSE ELSE Trim(x.stdout) = Str(billingAccount)

isBillingLinked(x, billingAccount) ==
  IF x.err THEN FALSE ELSE EndsWith(Trim(x.stdout), Str(billingAccount))

\* Mutant of serviceAccountExists: the catch branch returns true.
serviceAccountExistsCatchTrue(x, email) ==
  IF x.err THEN TRUE ELSE ArrayIncludes(SplitTrim(x.stdout, "\n"), email)

serviceAccountExists(x, email) ==
  IF x.err THEN FALSE ELSE ArrayIncludes(SplitTrim(x.stdout, "\n"), email)

bucketExists(x) == ~x.err

workloadIdentityPoolExists(x) == IF x.err THEN FALSE ELSE Trim(x.stdout) # <<>>

workloadIdentityProviderExists(x) == IF x.err THEN FALSE ELSE Trim(x.stdout) # <<>>

\* ------------------------------------------------------ the Command Executor
\* run(cmd, step) calls fail: exec rejected, or the trimmed stdout is empty.
RunFails(x) == x.err \/ Trim(x.stdout) = <<>>

TraceEntry(c, label, class, verdict) ==
  [cmd |-> c, step |-> label, class |-> class, verdict |-> verdict]

\* Mutant of fail: the error is written and the step is tried again.
failAndRetry(label, c, note) ==
  /\ lastError' = [label |-> label, cmd |-> c, note |-> note]
  /\ exitCode' = exitCode
  /\ pc' = pc
  /\ serverAlive' = serverAlive

\* Mutant of fail: the error is written and the process ends with status 0.
failExitZero(label, c, note) ==
  /\ lastError' = [label |-> label, cmd |-> c, note |-> note]
  /\ exitCode' = 0
  /\ pc' = "exited"
  /\ serverAlive' = IF entry = "handler" THEN FALSE ELSE serverAlive

\* fail(msg, err): console.error, then process.exit(1).
fail(label, c, note) ==
  /\ lastError' = [label |-> label, cmd |-> c, note |-> note]
  /\ exitCode' = 1
  /\ pc' = "exited"
  /\ serverAlive' = IF entry = "handler" THEN FALSE ELSE serverAlive

\* The positions of a run at which it issues an external command.
StepPcs == { "list", "createProject", "billingProbe", "link", "describe", "enable",
             "saProbe", "saCreate", "projectRole", "orgRole", "billingRole",
             "poolProbe", "poolCreate", "githubProviderProbe", "githubProviderCreate",
             "devProviderProbe", "devProviderCreate", "grant", "grantDev",
             "bucketProbe", "bucketCreate" }

\* Mutant of exec: the caller does not await the process it spawned.
execNoAwait ==
  /\ pc \in StepPcs
  /\ inflight < 2
  /\ inflight' = inflight + 1
  /\ UNCHANGED << account, created, now, runs, serverAlive, args, entry, req, pc, idx,
                  timestamp, projects, projectId, serviceAccountEmail, bucketName,
                  projectNumber, trace, lastExec, lastError, exitCode, result,
                  handlerStatus, prev, reliable, other, setupVars >>

\* exec(cmd): the external process of the step the run stands at is spawned;
\* the run is suspended on the await until the process settles.
exec ==
  /\ pc \in StepPcs
  /\ inflight = 0
  /\ inflight' = inflight + 1
  /\ UNCHANGED << account, created, now, runs, serverAlive, args, entry, req, pc, idx,
                  timestamp, projects, projectId, serviceAccountEmail, bucketName,
                  projectNumber, trace, lastExec, lastError, exitCode, result,
                  handlerStatus, prev, reliable, other, setupVars >>

\* await run(cmd, step), then continue at next.
run(c, label, x, next, nidx) ==
  /\ inflight > 0
  /\ inflight' = inflight - 1
  /\ x \in ExecOutcomes(account, c)
  /\ account' = IF x.err THEN account ELSE Effect(account, c)
  /\ created' = IF ~x.err /\ c.op = "projects create" THEN created \cup {c.a} ELSE created
  /\ trace' = Append(trace, TraceEntry(c, label, "run",
                                       IF RunFails(x) THEN "fail" ELSE "ok"))
  /\ lastExec' = x
  /\ IF RunFails(x)
     THEN /\ fail(<<"Step failed: ">> \o label, c,
                  IF x.err THEN "error" ELSE "No output received")
          /\ idx' = idx
     ELSE /\ pc' = next
          /\ idx' = nidx
          /\ UNCHANGED <<lastError, exitCode, serverAlive>>

\* Mutant of probe: the creation step follows whatever the probe reported.
probeThenCreate(c, label, x, present, nextPresent, nidxPresent, nextAbsent) ==
  /\ inflight > 0
  /\ inflight' = inflight - 1
  /\ x \in ExecOutcomes(account, c)
  /\ trace' = Append(trace, TraceEntry(c, label, "probe",
                                       IF present THEN "present" ELSE "absent"))
  /\ lastExec' = x
  /\ pc' = nextAbsent
  /\ idx' = idx
  /\ UNCHANGED <<account, created, lastError, exitCode, serverAlive>>

\* await <probe>(...), then continue at the creation step or past it.
probe(c, label, x, present, nextPresent, nidxPresent, nextAbsent) ==
  /\ inflight > 0
  /\ inflight' = inflight - 1
  /\ x \in ExecOutcomes(account, c)
  /\ trace' = Append(trace, TraceEntry(c, label, "probe",
                                       IF present THEN "present" ELSE "absent"))
  /\ lastExec' = x
  /\ IF present THEN pc' = nextPresent /\ idx' = nidxPresent
                ELSE pc' = nextAbsent /\ idx' = idx
  /\ UNCHANGED <<account, created, lastError, exitCode, serverAlive>>

\* ---------------------------------------------------------- entry adapters
\* How the run that is being replaced ended.
Ended == IF pc = "idle" THEN "none" ELSE IF result.ok THEN "success" ELSE "failed"

\* A fresh invocation: the locals of runFoundationProject up to the first await.
Enter(path, a) ==
  /\ runs' = runs + 1
  /\ entry' = path
  /\ req' = a
  /\ prev' = [ended |-> Ended, req |-> req, result |-> result, account |-> account]
  /\ reliable' \in BOOLEAN
  /\ timestamp' = now
  /\ projects' = <<>>
  /\ projectId' = FreshProjectId(a.projectName, now)
  /\ serviceAccountEmail' = <<>>
  /\ bucketName' = <<>>
  /\ projectNumber' = <<>>
  /\ trace' = <<>>
  /\ lastExec' = NoExec
  /\ result' = NoResult
  /\ idx' = 1
  /\ inflight' = 0
  /\ UNCHANGED <<account, created, now, other>>

\* CLI entry point: InputSchema.safeParse, then runFoundationProject.
StartCli(q) ==
  /\ args' = q
  /\ pc \in Finished
  /\ runs < MaxRuns
  /\ runs = 0 \/ (q = args /\ q \in MainRequests)
  /\ LET raw == [f \in Fields |-> getEnvOrArg(q[f])]
     IN  IF InputSchemaOk(raw)
         THEN /\ Enter("cli", [raw EXCEPT !.regions = Join(RegionList(raw.regions), ",")])
              /\ pc' = "list"
              /\ lastError' = NoError
              /\ exitCode' = -1
         ELSE /\ Enter("cli", raw)
              /\ pc' = "exited"
              /\ lastError' = [label |-> <<"Invalid input">>, cmd |-> NoCmd,
                               note |-> "validation"]
              /\ exitCode' = 1
  /\ handlerStatus' = "none"
  /\ UNCHANGED serverAlive

\* runFoundationProjectHandler: calls runFoundationProject with the arguments
\* as given; a throw before the first await is caught and returned.
StartHandler(q) ==
  /\ args' = q
  /\ pc \in Finished
  /\ runs < MaxRuns
  /\ runs = 0 \/ (q = args /\ q \in MainRequests)
  /\ serverAlive
  /\ Enter("handler", q)
  /\ IF q.regions = Missing
     THEN /\ pc' = "returned"
          /\ handlerStatus' = "failed"
     ELSE /\ pc' = "list"
          /\ handlerStatus' = "none"
  /\ lastError' = NoError
  /\ exitCode' = -1
  /\ UNCHANGED serverAlive

\* The clock advances between invocations.
Tick ==
  /\ pc \in Finished
  /\ runs < MaxRuns
  /\ now < MaxClock
  /\ now' = now + 1
  /\ UNCHANGED <<account, created, runs, serverAlive, args, entry, req, pc, idx, locals,
                 trace, lastExec, lastError, exitCode, result, handlerStatus, prev,
                 inflight, reliable, other, setupVars>>

\* ------------------------------------------------------ runFoundationProject
defaultRegion == LET l == RegionList(req.regions) IN IF l = <<>> THEN Missing ELSE l[1]

serviceAccountName == ServiceAccountName(req.projectName)

poolId(i) == PoolId(req.projectName, i)

githubAttributeCondition ==
  IF Includes(req.githubIdentity, "/")
  THEN <<"assertion.repository == '">> \o req.githubIdentity \o <<"'">>
  ELSE <<"assertion.repository_owner == '">> \o req.githubIdentity \o <<"'">>

\* Mutant of githubPrincipalAttributePart: the owner attribute in both cases.
githubPrincipalAttributePartOwner ==
  <<"attribute.repository_owner/">> \o req.githubIdentity

githubPrincipalAttributePart ==
  IF Includes(req.githubIdentity, "/")
  THEN <<"attribute.repository/">> \o req.githubIdentity
  ELSE <<"attribute.repository_owner/">> \o req.githubIdentity

rest == <<runs, args, entry, req, now, result, handlerStatus, prev, reliable, other,
         setupVars>>

\* Mutant of ListProjectsStep: on reuse the bucket name is derived from the
\* timestamped candidate id.
ListProjectsStepCandidateBucket ==
  /\ pc = "list"
  /\ \E x \in ExecOutcomes(account, Cmd("projects list", <<>>, <<>>, <<>>, <<>>, <<>>)) :
       LET ps == listProjects(x)
           existing == FindExisting(ps, req.projectName)
       IN  /\ probe(Cmd("projects list", <<>>, <<>>, <<>>, <<>>, <<>>),
                    <<"listProjects">>, x, existing # <<>>,
                    "billingProbe", idx, "createProject")
           /\ projects' = ps
           /\ IF existing # <<>>
              THEN /\ projectId' = existing
                   /\ serviceAccountEmail' = ServiceAccountEmail(req.projectName, existing)
                   /\ bucketName' = BucketName(projectId)
              ELSE UNCHANGED <<projectId, serviceAccountEmail, bucketName>>
  /\ UNCHANGED <<timestamp, projectNumber>>
  /\ UNCHANGED rest

\* Mutant of ListProjectsStep: on reuse the run keeps the timestamped candidate
\* as its project id.
ListProjectsStepKeepsCandidate ==
  /\ pc = "list"
  /\ \E x \in ExecOutcomes(account, Cmd("projects list", <<>>, <<>>, <<>>, <<>>, <<>>)) :
       LET ps == listProjects(x)
           existing == FindExisting(ps, req.projectName)
       IN  /\ probe(Cmd("projects list", <<>>, <<>>, <<>>, <<>>, <<>>),
                    <<"listProjects">>, x, existing # <<>>,
                    "billingProbe", idx, "createProject")
           /\ projects' = ps
           /\ IF existing # <<>>
              THEN /\ projectId' = projectId
                   /\ serviceAccountEmail' = ServiceAccountEmail(req.projectName, existing)
                   /\ bucketName' = BucketName(existing)
              ELSE UNCHANGED <<projectId, serviceAccountEmail, bucketName>>
  /\ UNCHANGED <<timestamp, projectNumber>>
  /\ UNCHANGED rest

\* const projects = await listProjects(); projects.find(...)
ListProjectsStep ==
  /\ pc = "list"
  /\ \E x \in ExecOutcomes(account, Cmd("projects list", <<>>, <<>>, <<>>, <<>>, <<>>)) :
       LET ps == listProjects(x)
           existing == FindExisting(ps, req.projectName)
       IN  /\ probe(Cmd("projects list", <<>>, <<>>, <<>>, <<>>, <<>>),
                    <<"listProjects">>, x, existing # <<>>,
                    "billingProbe", idx, "createProject")
           /\ projects' = ps
           /\ IF existing # <<>>
              THEN /\ projectId' = existing
                   /\ serviceAccountEmail' = ServiceAccountEmail(req.projectName, existing)
                   /\ bucketName' = BucketName(existing)
              ELSE UNCHANGED <<projectId, serviceAccountEmail, bucketName>>
  /\ UNCHANGED <<timestamp, projectNumber>>
  /\ UNCHANGED rest

\* Mutant of CreateProject: the step looks at the account again and goes on
\* with a project of the prefix that has appeared since the listing.
CreateProjectUnlessAppeared ==
  /\ pc = "createProject"
  /\ IF \E p \in account.projects : ProjectRegexTest(req.projectName, p)
     THEN LET found == CHOOSE p \in account.projects :
                         ProjectRegexTest(req.projectName, p)
          IN  /\ inflight > 0
              /\ inflight' = inflight - 1
              /\ pc' = "billingProbe"
              /\ projectId' = found
              /\ serviceAccountEmail' = ServiceAccountEmail(req.projectName, found)
              /\ bucketName' = BucketName(found)
              /\ UNCHANGED <<account, created, trace, lastExec, lastError, exitCode,
                             serverAlive, idx>>
     ELSE LET c == Cmd("projects create", projectId, Str(req.orgId), <<>>, <<>>, <<>>)
          IN  \E x \in ExecOutcomes(account, c) :
                /\ run(c, <<"Create GCP Project">>, x, "billingProbe", idx)
                /\ projectId' = projectId
                /\ IF RunFails(x)
                   THEN UNCHANGED <<serviceAccountEmail, bucketName>>
                   ELSE /\ serviceAccountEmail' =
                             ServiceAccountEmail(req.projectName, projectId)
                        /\ bucketName' = BucketName(projectId)
  /\ projects' = <<>>
  /\ UNCHANGED <<timestamp, projectNumber>>
  /\ UNCHANGED rest

CreateProject ==
  /\ pc = "createProject"
  /\ LET c == Cmd("projects create", projectId, Str(req.orgId), <<>>, <<>>, <<>>)
     IN  \E x \in ExecOutcomes(account, c) :
           /\ run(c, <<"Create GCP Project">>, x, "billingProbe", idx)
           /\ IF RunFails(x)
              THEN UNCHANGED <<serviceAccountEmail, bucketName>>
              ELSE /\ serviceAccountEmail' = ServiceAccountEmail(req.projectName, projectId)
                   /\ bucketName' = BucketName(projectId)
  /\ projects' = <<>>
  /\ UNCHANGED <<timestamp, projectId, projectNumber>>
  /\ UNCHANGED rest

BillingProbe ==
  /\ pc = "billingProbe"
  /\ LET c == Cmd("billing projects describe", projectId, <<>>, <<>>, <<>>, <<>>)
     IN  \E x \in ExecOutcomes(account, c) :
           probe(c, <<"isBillingLinked">>, x, isBillingLinked(x, req.billingAccount),
                 "describe", idx, "link")
  /\ projects' = <<>>
  /\ UNCHANGED <<timestamp, projectId, serviceAccountEmail, bucketName, projectNumber>>
  /\ UNCHANGED rest

LinkBilling ==
  /\ pc = "link"
  /\ LET c == Cmd("billing projects link", projectId, Str(req.billingAccount),
                  <<>>, <<>>, <<>>)
     IN  \E x \in ExecOutcomes(account, c) : run(c, <<"Link Billing">>, x, "describe", idx)
  /\ UNCHANGED locals
  /\ UNCHANGED rest

\* Mutant of GetProjectNumber: the output is kept with its line end.
GetProjectNumberUntrimmed ==
  /\ pc = "describe"
  /\ LET c == Cmd("projects describe", projectId, <<>>, <<>>, <<>>, <<>>)
     IN  \E x \in ExecOutcomes(account, c) :
           /\ run(c, <<"Get Project Number">>, x, "enable", 1)
           /\ projectNumber' = IF RunFails(x) THEN projectNumber ELSE x.stdout
  /\ UNCHANGED <<timestamp, projects, projectId, serviceAccountEmail, bucketName>>
  /\ UNCHANGED rest

GetProjectNumber ==
  /\ pc = "describe"
  /\ LET c == Cmd("projects describe", projectId, <<>>, <<>>, <<>>, <<>>)
     IN  \E x \in ExecOutcomes(account, c) :
           /\ run(c, <<"Get Project Number">>, x, "enable", 1)
           /\ projectNumber' = IF RunFails(x) THEN projectNumber ELSE Trim(x.stdout)
  /\ UNCHANGED <<timestamp, projects, projectId, serviceAccountEmail, bucketName>>
  /\ UNCHANGED rest

EnableApi ==
  /\ pc = "enable"
  /\ LET c == Cmd("services enable", projectId, <<apis[idx]>>, <<>>, <<>>, <<>>)
     IN  \E x \in ExecOutcomes(account, c) :
           run(c, <<"Enable API: ", apis[idx]>>, x,
               IF idx < Len(apis) THEN "enable" ELSE "saProbe",
               IF idx < Len(apis) THEN idx + 1 ELSE 1)
  /\ UNCHANGED locals
  /\ UNCHANGED rest

\* Mutant of ServiceAccountProbe: a service account that is there is taken to
\* have its project-level bindings.
ServiceAccountProbeSkipsRoles ==
  /\ pc = "saProbe"
  /\ LET c == Cmd("service-accounts list", projectId, <<>>, <<>>, <<>>, <<>>)
     IN  \E x \in ExecOutcomes(account, c) :
           probe(c, <<"serviceAccountExists">>, x,
                 serviceAccountExists(x, serviceAccountEmail),
                 "orgRole", 1, "saCreate")
  /\ UNCHANGED locals
  /\ UNCHANGED rest

ServiceAccountProbe ==
  /\ pc = "saProbe"
  /\ LET c == Cmd("service-accounts list", projectId, <<>>, <<>>, <<>>, <<>>)
     IN  \E x \in ExecOutcomes(account, c) :
           probe(c, <<"serviceAccountExists">>, x,
                 serviceAccountExists(x, serviceAccountEmail),
                 "projectRole", 1, "saCreate")
  /\ UNCHANGED locals
  /\ UNCHANGED rest

CreateServiceAccount ==
  /\ pc = "saCreate"
  /\ LET c == Cmd("service-accounts create", projectId, serviceAccountName,
                  <<>>, <<>>, <<>>)
     IN  \E x \in ExecOutcomes(account, c) :
           run(c, <<"Create Service Account">>, x, "projectRole", 1)
  /\ UNCHANGED locals
  /\ UNCHANGED rest

AssignProjectRole ==
  /\ pc = "projectRole"
  /\ LET c == Cmd("projects add-iam-policy-binding", projectId, serviceAccountEmail,
                  <<projectRoles[idx]>>, <<>>, <<>>)
     IN  \E x \in ExecOutcomes(account, c) :
           run(c, <<"Assign Project Role: ", projectRoles[idx]>>, x,
               IF idx < Len(projectRoles) THEN "projectRole" ELSE "orgRole",
               IF idx < Len(projectRoles) THEN idx + 1 ELSE 1)
  /\ UNCHANGED locals
  /\ UNCHANGED rest

\* Mutant of AssignOrgRole: the step label of the project-role loop.
AssignOrgRoleProjectLabel ==
  /\ pc = "orgRole"
  /\ LET c == Cmd("organizations add-iam-policy-binding", Str(req.orgId),
                  serviceAccountEmail, <<orgRoles[idx]>>, <<>>, <<>>)
     IN  \E x \in ExecOutcomes(account, c) :
           run(c, <<"Assign Project Role: ", orgRoles[idx]>>, x,
               IF idx < Len(orgRoles) THEN "orgRole" ELSE "billingRole",
               IF idx < Len(orgRoles) THEN idx + 1 ELSE 1)
  /\ UNCHANGED locals
  /\ UNCHANGED rest

AssignOrgRole ==
  /\ pc = "orgRole"
  /\ LET c == Cmd("organizations add-iam-policy-binding", Str(req.orgId),
                  serviceAccountEmail, <<orgRoles[idx]>>, <<>>, <<>>)
     IN  \E x \in ExecOutcomes(account, c) :
           run(c, <<"Assign Org Role: ", orgRoles[idx]>>, x,
               IF idx < Len(orgRoles) THEN "orgRole" ELSE "billingRole",
               IF idx < Len(orgRoles) THEN idx + 1 ELSE 1)
  /\ UNCHANGED locals
  /\ UNCHANGED rest

AssignBillingRole ==
  /\ pc = "billingRole"
  /\ LET c == Cmd("billing accounts add-iam-policy-binding", Str(req.billingAccount),
                  serviceAccountEmail, <<"roles/billing.user">>, <<>>, <<>>)
     IN  \E x \in ExecOutcomes(account, c) :
           run(c, <<"Assign Billing Role">>, x, "poolProbe", 1)
  /\ UNCHANGED locals
  /\ UNCHANGED rest

\* Mutant of AfterGithubProvider: the test pool gets the developer provider too.
AfterGithubProviderDevAndTest(i) ==
  IF pools[i] \in {"dev", "test"} THEN <<"devProviderProbe", i>>
  ELSE IF i < Len(pools) THEN <<"poolProbe", i + 1>> ELSE <<"grant", 1>>

\* Where the pool loop goes after the CI provider of pools[i].
AfterGithubProvider(i) ==
  IF pools[i] = "dev" THEN <<"devProviderProbe", i>>
  ELSE IF i < Len(pools) THEN <<"poolProbe", i + 1>> ELSE <<"grant", 1>>

\* Where the pool loop goes after the local-developer provider of pools[i].
AfterDevProvider(i) ==
  IF i < Len(pools) THEN <<"poolProbe", i + 1>> ELSE <<"grant", 1>>

\* Mutant of PoolProbe: a pool that is not there is not created.
PoolProbeNoCreate ==
  /\ pc = "poolProbe"
  /\ LET c == Cmd("pools describe", projectId, poolId(idx), <<>>, <<>>, <<>>)
     IN  \E x \in ExecOutcomes(account, c) :
           probe(c, <<"workloadIdentityPoolExists">>, x, workloadIdentityPoolExists(x),
                 "githubProviderProbe", idx, "githubProviderProbe")
  /\ UNCHANGED locals
  /\ UNCHANGED rest

PoolProbe ==
  /\ pc = "poolProbe"
  /\ LET c == Cmd("pools describe", projectId, poolId(idx), <<>>, <<>>, <<>>)
     IN  \E x \in ExecOutcomes(account, c) :
           probe(c, <<"workloadIdentityPoolExists">>, x, workloadIdentityPoolExists(x),
                 "githubProviderProbe", idx, "poolCreate")
  /\ UNCHANGED locals
  /\ UNCHANGED rest

CreatePool ==
  /\ pc = "poolCreate"
  /\ LET c == Cmd("pools create", projectId, poolId(idx), <<>>, <<>>, <<>>)
     IN  \E x \in ExecOutcomes(account, c) :
           run(c, <<"Create Pool: ">> \o poolId(idx), x, "githubProviderProbe", idx)
  /\ UNCHANGED locals
  /\ UNCHANGED rest

GithubProviderProbe ==
  /\ pc = "githubProviderProbe"
  /\ LET c == Cmd("providers describe", projectId, poolId(idx), githubProviderId,
                  <<>>, <<>>)
     IN  \E x \in ExecOutcomes(account, c) :
           probe(c, <<"workloadIdentityProviderExists">>, x,
                 workloadIdentityProviderExists(x),
                 AfterGithubProvider(idx)[1], AfterGithubProvider(idx)[2],
                 "githubProviderCreate")
  /\ UNCHANGED locals
  /\ UNCHANGED rest

CreateGithubProvider ==
  /\ pc = "githubProviderCreate"
  /\ LET c == Cmd("providers create-oidc", projectId, poolId(idx), githubProviderId,
                  githubAttributeCondition, projectNumber)
     IN  \E x \in ExecOutcomes(account, c) :
           run(c, <<"Create GitHub Provider for Pool: ">> \o poolId(idx), x,
               AfterGithubProvider(idx)[1], AfterGithubProvider(idx)[2])
  /\ UNCHANGED locals
  /\ UNCHANGED rest

DevProviderProbe ==
  /\ pc = "devProviderProbe"
  /\ LET c == Cmd("providers describe", projectId, poolId(idx), localDevProviderId,
                  <<>>, <<>>)
     IN  \E x \in ExecOutcomes(account, c) :
           probe(c, <<"workloadIdentityProviderExists">>, x,
                 workloadIdentityProviderExists(x),
                 AfterDevProvider(idx)[1], AfterDevProvider(idx)[2],
                 "devProviderCreate")
  /\ UNCHANGED locals
  /\ UNCHANGED rest

CreateDevProvider ==
  /\ pc = "devProviderCreate"
  /\ LET c == Cmd("providers create-oidc", projectId, poolId(idx), localDevProviderId,
                  <<"true">>, projectNumber)
     IN  \E x \in ExecOutcomes(account, c) :
           run(c, <<"Create Local Developer Provider for Pool: ">> \o poolId(idx), x,
               AfterDevProvider(idx)[1], AfterDevProvider(idx)[2])
  /\ UNCHANGED locals
  /\ UNCHANGED rest

\* Mutant of AfterGrant: no pool gets the developer grant.
AfterGrantSkipDev(i) ==
  IF i < Len(pools) THEN <<"grant", i + 1>> ELSE <<"bucketProbe", 1>>

\* Where the grant loop goes after the CI grant of pools[i].
AfterGrant(i) ==
  IF pools[i] = "dev" THEN <<"grantDev", i>>
  ELSE IF i < Len(pools) THEN <<"grant", i + 1>> ELSE <<"bucketProbe", 1>>

\* Mutant of AfterGrantDev: the grants are issued inside the pool loop.
AfterGrantDevBackToPools(i) ==
  IF i < Len(pools) THEN <<"poolProbe", i + 1>> ELSE <<"bucketProbe", 1>>

\* Where the grant loop goes after the developer grant of pools[i].
AfterGrantDev(i) ==
  IF i < Len(pools) THEN <<"grant", i + 1>> ELSE <<"bucketProbe", 1>>

GrantImpersonation ==
  /\ pc = "grant"
  /\ LET c == Cmd("service-accounts add-iam-policy-binding", serviceAccountEmail,
                  projectId, poolId(idx), githubPrincipalAttributePart, projectNumber)
     IN  \E x \in ExecOutcomes(account, c) :
           run(c, <<"Grant Impersonation for Pool: ">> \o poolId(idx), x,
               AfterGrant(idx)[1], AfterGrant(idx)[2])
  /\ UNCHANGED locals
  /\ UNCHANGED rest

GrantLocalDeveloper ==
  /\ pc = "grantDev"
  /\ LET c == Cmd("service-accounts add-iam-policy-binding", serviceAccountEmail,
                  projectId, poolId(idx),
                  <<"attribute.email/">> \o Str(req.developerIdentity), projectNumber)
     IN  \E x \in ExecOutcomes(account, c) :
           run(c, <<"Grant Impersonation for Local Developer">>, x,
               AfterGrantDev(idx)[1], AfterGrantDev(idx)[2])
  /\ UNCHANGED locals
  /\ UNCHANGED rest

BucketProbe ==
  /\ pc = "bucketProbe"
  /\ LET c == Cmd("buckets describe", bucketName, <<>>, <<>>, <<>>, <<>>)
     IN  \E x \in ExecOutcomes(account, c) :
           probe(c, <<"bucketExists">>, x, bucketExists(x), "return", idx, "bucketCreate")
  /\ UNCHANGED locals
  /\ UNCHANGED rest

CreateBucket ==
  /\ pc = "bucketCreate"
  /\ LET c == Cmd("buckets create", bucketName, projectId, Str(defaultRegion),
                  <<>>, <<>>)
     IN  \E x \in ExecOutcomes(account, c) :
           run(c, <<"Create GCS Bucket">>, x, "return", idx)
  /\ UNCHANGED locals
  /\ UNCHANGED rest

\* Mutant of Result: the provider paths name the timestamped candidate id.
ResultOfCandidate ==
  [ ok |-> TRUE,
    projectId |-> projectId,
    serviceAccount |-> serviceAccountEmail,
    projectNumber |-> projectNumber,
    workloadIdentityProviders |->
      [env \in {pools[i] : i \in DOMAIN pools} |->
         LET i == CHOOSE k \in DOMAIN pools : pools[k] = env
         IN  <<"projects/">> \o FreshProjectId(req.projectName, timestamp) \o <<"/locations/global/workloadIdentityPools/">>
               \o poolId(i) \o <<"/providers/">> \o githubProviderId],
    terraformStateBucket |-> bucketName,
    region |-> defaultRegion,
    regions |-> req.regions,
    orgId |-> req.orgId,
    billingAccount |-> req.billingAccount,
    githubIdentity |-> req.githubIdentity,
    developerIdentity |-> req.developerIdentity,
    ownerEmails |-> req.ownerEmails ]

\* The structured result of runFoundationProject: workloadIdentityProviders is
\* keyed by pools[i].
Result ==
  [ ok |-> TRUE,
    projectId |-> projectId,
    serviceAccount |-> serviceAccountEmail,
    projectNumber |-> projectNumber,
    workloadIdentityProviders |->
      [env \in {pools[i] : i \in DOMAIN pools} |->
         LET i == CHOOSE k \in DOMAIN pools : pools[k] = env
         IN  <<"projects/">> \o projectId \o <<"/locations/global/workloadIdentityPools/">>
               \o poolId(i) \o <<"/providers/">> \o githubProviderId],
    terraformStateBucket |-> bucketName,
    region |-> defaultRegion,
    regions |-> req.regions,
    orgId |-> req.orgId,
    billingAccount |-> req.billingAccount,
    githubIdentity |-> req.githubIdentity,
    developerIdentity |-> req.developerIdentity,
    ownerEmails |-> req.ownerEmails ]

\* return {...}: the CLI prints the result and ends, the handler returns
\* { status: 'success', ...result }.
Return ==
  /\ pc = "return"
  /\ pc' = "returned"
  /\ result' = Result
  /\ handlerStatus' = IF entry = "handler" THEN "success" ELSE handlerStatus
  /\ exitCode' = IF entry = "cli" THEN 0 ELSE exitCode
  /\ UNCHANGED <<account, created, now, runs, serverAlive, args, entry, req, idx, locals,
                 trace, lastExec, lastError, prev, inflight, reliable, other, setupVars>>

\* The steps of a run: a process is spawned, or the step the run stands at
\* goes on with what its process settled with.
Step ==
  \/ exec
  \/ ListProjectsStep
  \/ CreateProject
  \/ BillingProbe
  \/ LinkBilling
  \/ GetProjectNumber
  \/ EnableApi
  \/ ServiceAccountProbe
  \/ CreateServiceAccount
  \/ AssignProjectRole
  \/ AssignOrgRole
  \/ AssignBillingRole
  \/ PoolProbe
  \/ CreatePool
  \/ GithubProviderProbe
  \/ CreateGithubProvider
  \/ DevProviderProbe
  \/ CreateDevProvider
  \/ GrantImpersonation
  \/ GrantLocalDeveloper
  \/ BucketProbe
  \/ CreateBucket
  \/ Return

Next ==
  \/ \E q \in Requests : StartCli(q) /\ UNCHANGED setupVars
  \/ \E q \in Requests : StartHandler(q) /\ UNCHANGED setupVars
  \/ Tick
  \/ Step

Spec == Init /\ [][Next]_vars

\* The event loop, or the operating system, goes on with the other of two
\* overlapping invocations, or makes room for a second invocation while the
\* first one is under way. The current invocation is left where a probe of it
\* has just settled (the window between an existence check and the creation
\* that rests on it) or where it has ended. An invocation served by a process
\* that has exited is not resumed.
Switch ==
  /\ inflight = 0
  /\ \/ pc \in {"returned", "exited"}
     \/ pc \in StepPcs /\ trace # <<>> /\ trace[Len(trace)].class = "probe"
  /\ \/ other.pc \notin Finished
     \/ other.pc = "idle" /\ pc \notin Finished /\ runs < MaxRuns
  /\ ~(other.entry = "handler" /\ ~serverAlive)
  /\ other' = Context(entry, req, pc, idx, timestamp, projects, projectId,
                      serviceAccountEmail, bucketName, projectNumber, trace, lastExec,
                      lastError, exitCode, result, handlerStatus, inflight, reliable)
  /\ entry' = other.entry
  /\ req' = other.req
  /\ pc' = other.pc
  /\ idx' = other.idx
  /\ timestamp' = other.timestamp
  /\ projects' = other.projects
  /\ projectId' = other.projectId
  /\ serviceAccountEmail' = other.serviceAccountEmail
  /\ bucketName' = other.bucketName
  /\ projectNumber' = other.projectNumber
  /\ trace' = other.trace
  /\ lastExec' = other.lastExec
  /\ lastError' = other.lastError
  /\ exitCode' = other.exitCode
  /\ result' = other.result
  /\ handlerStatus' = other.handlerStatus
  /\ inflight' = other.inflight
  /\ reliable' = other.reliable
  /\ UNCHANGED <<account, created, now, runs, serverAlive, args, prev, setupVars>>

\* Two invocations of the command-line entry point for the same request that
\* may overlap, against a remote side that is reliable.
NextRace ==
  \/ \E q \in MainRequests : StartCli(q) /\ reliable' /\ UNCHANGED setupVars
  \/ Tick
  \/ Step
  \/ Switch

SpecRace == Init /\ [][NextRace]_vars

\* ------------------------------------------------------------ the setup tools
\* (handlers/tool: installPrerequisites, createGitHubRepo,
\* createGitHubEnvironments, setupGitHubSecrets, createSkeletonApp and
\* completeProjectSetup, which calls them and runFoundationProjectHandler)

\* Setup tool calls in one behaviour.
MaxCalls == 1
\* Transient failures of the commands of the setup tools in one behaviour.
MaxFaults == 2

\* A command line of a setup tool: the program and the values interpolated.
GCmd(op, a, b, c, d) == [op |-> op, a |-> a, b |-> b, c |-> c, d |-> d]

\* A value that passes `if (value)`.
Truthy(v) == v # <<>> /\ v # Missing

\* The machine and the GitHub side: the command can be carried out.
CanDo(h, c) ==
  LET GhUsable == "gh" \in h.tools /\ h.ghAuth
      \* gh takes a repository as OWNER/NAME
      WellFormedRepo(full) ==
        Len(full) = 3 /\ full[1] # "/" /\ full[2] = "/" /\ full[3] # "/"
  IN  CASE c.op = "check"                  -> c.a[1] \in h.tools
        [] c.op = "npm install -g"         -> TRUE
        [] c.op = "gh --version"           -> "gh" \in h.tools
        [] c.op = "gh auth status"         -> GhUsable
        [] c.op = "gcloud auth list"       -> "gcloud" \in h.tools
        [] c.op = "gh repo list"           -> GhUsable /\ Len(c.a) = 1 /\ c.a # <<"/">>
        [] c.op = "gh repo create"         ->
             GhUsable /\ WellFormedRepo(c.a) /\ c.a \notin h.repos
        [] c.op = "gh api environments"    -> GhUsable /\ c.a \in h.repos
        [] c.op = "gh api -X PUT"          -> GhUsable /\ c.a \in h.repos
        [] c.op \in {"gh variable set", "gh secret set"} ->
             /\ GhUsable /\ c.b \in h.repos
             /\ c.c = <<>> \/ <<c.b, c.c[1]>> \in h.envs
        [] OTHER                           -> FALSE

\* The machine and the GitHub side: what the command prints when it is
\* carried out. gh auth status reports on stdout or, in other versions of gh,
\* on stderr only.
HostOutputs(h, c) ==
  CASE c.op = "gh auth status" -> { <<"Logged in to github.com">>, <<>> }
    [] c.op = "gcloud auth list" ->
         IF h.gcloudAuth THEN { <<"[", "ACTIVE", "]">> } ELSE { <<"[", "]">> }
    [] c.op = "gh repo list" ->
         { Lines(o) : o \in Orders({ <<r[3]>> : r \in { k \in h.repos : k[1] = c.a[1] } }) }
    [] c.op = "gh api environments" ->
         { Lines(o) : o \in Orders({ <<e[2]>> : e \in { k \in h.envs : k[1] = c.a } }) }
    [] OTHER -> { <<"ok">> }

\* The machine and the GitHub side: what a command that was carried out leaves.
HostEffect(h, c) ==
  CASE c.op = "npm install -g" -> [h EXCEPT !.tools = @ \cup {c.a[1]}]
    [] c.op = "gh repo create" -> [h EXCEPT !.repos = @ \cup {c.a}]
    [] c.op = "gh api -X PUT"  -> [h EXCEPT !.envs = @ \cup {<<c.a, c.b[1]>>}]
    [] c.op \in {"gh variable set", "gh secret set"} ->
         [h EXCEPT !.settings =
            { s \in @ : <<s[1], s[2], s[3], s[4]>> # <<c.op, c.b, c.c, c.a>> }
              \cup { <<c.op, c.b, c.c, c.a, c.d>> }]
    [] OTHER -> h

\* What execAsync(cmd) settles with: [err, stdout, fault]. A command that
\* cannot be carried out fails; an installation may fail; any other command
\* may fail for a transient reason, MaxFaults times in a behaviour.
HostOutcomes(h, c) ==
  (IF CanDo(h, c)
   THEN { [err |-> FALSE, stdout |-> o, fault |-> FALSE] : o \in HostOutputs(h, c) }
   ELSE { [err |-> TRUE, stdout |-> <<>>, fault |-> FALSE] })
  \cup (IF c.op = "npm install -g"
        THEN { [err |-> TRUE, stdout |-> <<>>, fault |-> FALSE] } ELSE {})
  \cup (IF CanDo(h, c) /\ c.op # "npm install -g" /\ h.faults < MaxFaults
        THEN { [err |-> TRUE, stdout |-> <<>>, fault |-> TRUE] } ELSE {})

\* await execAsync(cmd); the log of the tool call takes the command, whether it
\* succeeded, and the place in the code that issued it.
execAsync(c, x) ==
  /\ x \in HostOutcomes(host, c)
  /\ host' = IF x.err
             THEN [host EXCEPT !.faults = IF x.fault THEN @ + 1 ELSE @]
             ELSE HostEffect(host, c)
  /\ gtrace' = Append(gtrace, [cmd |-> c, ok |-> ~x.err, at |-> spc])

\* The state of runFoundationProject and its entry points.
runVars == << account, created, now, runs, serverAlive, args, entry, req, pc, idx,
             timestamp, projects, projectId, serviceAccountEmail, bucketName,
             projectNumber, trace, lastExec, lastError, exitCode, result, handlerStatus,
             prev, inflight, reliable, other, pollVars >>

\* The setup tool being served is at position p.
At(p) == serverAlive /\ tool # "none" /\ spc = p

\* The server takes a tool call: the locals of the tool are fresh.
Accept(name) ==
  /\ serverAlive
  /\ spc \in {"idle", "done"}
  /\ pc \in Finished
  /\ inflight = 0
  /\ calls < MaxCalls
  /\ calls' = calls + 1
  /\ tool' = name
  /\ sidx' = 1
  /\ gtrace' = <<>>
  /\ summary' = <<>>
  /\ repoResult' = NoRepoResult
  /\ envResult' = NoEnvResult
  /\ secretsResult' = NoSecretsResult
  /\ skeletonResult' = "none"
  /\ setupResult' = NoSetupResult
  /\ UNCHANGED host
  /\ UNCHANGED runVars

\* ------------------------------------------------------ installPrerequisites
\* The end of one round of the loop over prerequisites; after the last one the
\* function returns { summary, message } and completeProjectSetup goes on:
\* summary.some((r) => r.installed === false) fails step 1.
PrereqNext(sm) ==
  /\ summary' = sm
  /\ IF sidx < Len(prerequisites)
     THEN /\ spc' = "prereqCheck"
          /\ sidx' = sidx + 1
          /\ UNCHANGED setupResult
     ELSE /\ sidx' = 1
          /\ IF \E i \in DOMAIN sm : ~sm[i].installed
             THEN /\ setupResult' = [setupResult EXCEPT !.status = "failed",
                                                        !.step1 = "failed"]
                  /\ spc' = "done"
             ELSE /\ setupResult' = [setupResult EXCEPT !.step1 = "success"]
                  /\ spc' = "ghAuth"

\* await execAsync(dep.check)
PrereqCheck ==
  /\ At("prereqCheck")
  /\ LET c == GCmd("check", <<prerequisites[sidx]>>, <<>>, <<>>, <<>>)
     IN  \E x \in HostOutcomes(host, c) :
           /\ execAsync(c, x)
           /\ IF x.err
              THEN /\ spc' = "prereqInstall"
                   /\ UNCHANGED <<sidx, summary, setupResult>>
              ELSE PrereqNext(Append(summary, [name |-> prerequisites[sidx],
                                               installed |-> TRUE]))
  /\ UNCHANGED <<setupArgs, repoArgs, secretsInput, repoResult, envResult, secretsResult,
                 skeletonResult>>
  /\ UNCHANGED <<runVars, calls, tool>>

\* await execAsync(dep.install)
PrereqInstall ==
  /\ At("prereqInstall")
  /\ LET c == GCmd("npm install -g", <<prerequisites[sidx]>>, <<>>, <<>>, <<>>)
     IN  \E x \in HostOutcomes(host, c) :
           /\ execAsync(c, x)
           /\ PrereqNext(Append(summary, [name |-> prerequisites[sidx],
                                          installed |-> ~x.err]))
  /\ UNCHANGED <<setupArgs, repoArgs, secretsInput, repoResult, envResult, secretsResult,
                 skeletonResult>>
  /\ UNCHANGED <<runVars, calls, tool>>

\* ------------------------------------------------------ completeProjectSetup
\* The requests complete_project_setup is called with.
SetupRequests == MainRequests \cup { [Base EXCEPT !.regions = Missing] }

\* Mutant of SetupFailed: the failure is returned without marking the step.
SetupFailedUnmarked(step, status) ==
  /\ setupResult' = [setupResult EXCEPT !.status = "failed"]
  /\ spc' = "done"

\* A step of completeProjectSetup failed: return { status: 'failed', ... }.
SetupFailed(step, status) ==
  /\ setupResult' = [setupResult EXCEPT !.status = "failed", ![step] = status]
  /\ spc' = "done"

\* complete_project_setup: the results are pending, installPrerequisites() is
\* called.
StartComplete(q) ==
  /\ runs = 0 \/ (q = args /\ q \in MainRequests)
  /\ runs < MaxRuns
  /\ Accept("complete_project_setup")
  /\ setupArgs' = q
  /\ spc' = "prereqCheck"
  /\ UNCHANGED <<repoArgs, secretsInput>>

\* Check GitHub CLI authentication: stdout includes 'Logged in to github.com'.
GhAuthCheck ==
  /\ At("ghAuth")
  /\ LET c == GCmd("gh auth status", <<>>, <<>>, <<>>, <<>>)
     IN  \E x \in HostOutcomes(host, c) :
           /\ execAsync(c, x)
           /\ IF ~x.err /\ Includes(x.stdout, "Logged in to github.com")
              THEN spc' = "gcloudAuth" /\ UNCHANGED setupResult
              ELSE SetupFailed("step1", "failed")
  /\ UNCHANGED <<setupArgs, repoArgs, secretsInput, sidx, summary, repoResult, envResult,
                 secretsResult, skeletonResult>>
  /\ UNCHANGED <<runVars, calls, tool>>

\* Check gcloud authentication: JSON.parse(stdout) has an ACTIVE account; then
\* createGitHubRepo({ repoName: args.projectName, githubIdentity, ... }).
GcloudAuthCheck ==
  /\ At("gcloudAuth")
  /\ LET c == GCmd("gcloud auth list", <<>>, <<>>, <<>>, <<>>)
     IN  \E x \in HostOutcomes(host, c) :
           /\ execAsync(c, x)
           /\ IF ~x.err /\ Includes(x.stdout, "ACTIVE")
              THEN /\ spc' = "repoGhVersion"
                   /\ repoArgs' = [repoName |-> setupArgs.projectName,
                                   githubIdentity |-> setupArgs.githubIdentity]
                   /\ UNCHANGED setupResult
              ELSE /\ SetupFailed("step1", "failed")
                   /\ UNCHANGED repoArgs
  /\ UNCHANGED <<setupArgs, secretsInput, sidx, summary, repoResult, envResult,
                 secretsResult, skeletonResult>>
  /\ UNCHANGED <<runVars, calls, tool>>

\* ----------------------------------------------------------- createGitHubRepo
\* The arguments create_github_repo is called with.
RepoRequests ==
  { [repoName |-> <<"p">>, githubIdentity |-> <<"my-org">>],
    [repoName |-> <<"p">>, githubIdentity |-> <<"my-org", "/", "my-repo">>],
    [repoName |-> <<"q">>, githubIdentity |-> <<"my-org">>] }

\* const fullRepoName = `${args.githubIdentity}/${args.repoName}`
fullRepoName == Str(repoArgs.githubIdentity) \o <<"/">> \o Str(repoArgs.repoName)

\* create_github_repo
StartRepo(a) ==
  /\ Accept("create_github_repo")
  /\ repoArgs' = a
  /\ spc' = "repoGhVersion"
  /\ UNCHANGED <<setupArgs, secretsInput>>

\* createGitHubRepo returns r; in completeProjectSetup a failed result fails
\* step 2, any other one is followed by runFoundationProjectHandler.
RepoReturn(r) ==
  /\ repoResult' = r
  /\ IF tool = "complete_project_setup"
     THEN IF r.status = "failed"
          THEN SetupFailed("step2", "failed")
          ELSE /\ setupResult' = [setupResult EXCEPT !.step2 = "success"]
               /\ spc' = "foundation"
     ELSE /\ spc' = "done"
          /\ UNCHANGED setupResult

RepoFailed == [status |-> "failed", repoName |-> <<>>]

\* Check if GitHub CLI is available
RepoGhVersion ==
  /\ At("repoGhVersion")
  /\ LET c == GCmd("gh --version", <<>>, <<>>, <<>>, <<>>)
     IN  \E x \in HostOutcomes(host, c) :
           /\ execAsync(c, x)
           /\ IF x.err THEN RepoReturn(RepoFailed)
                       ELSE spc' = "repoAuth" /\ UNCHANGED <<repoResult, setupResult>>
  /\ UNCHANGED <<setupArgs, repoArgs, secretsInput, sidx, summary, envResult,
                 secretsResult, skeletonResult>>
  /\ UNCHANGED <<runVars, calls, tool>>

\* Check if user is authenticated with GitHub
RepoAuth ==
  /\ At("repoAuth")
  /\ LET c == GCmd("gh auth status", <<>>, <<>>, <<>>, <<>>)
     IN  \E x \in HostOutcomes(host, c) :
           /\ execAsync(c, x)
           /\ IF x.err THEN RepoReturn(RepoFailed)
                       ELSE spc' = "repoList" /\ UNCHANGED <<repoResult, setupResult>>
  /\ UNCHANGED <<setupArgs, repoArgs, secretsInput, sidx, summary, envResult,
                 secretsResult, skeletonResult>>
  /\ UNCHANGED <<runVars, calls, tool>>

\* listGitHubRepos: the names listed, [] when the listing fails.
listGitHubRepos(x) == IF x.err THEN <<>> ELSE SplitTrimFilter(x.stdout, "\n")

\* Mutant of RepoList: the listing is not consulted, the repository is created.
RepoListAlwaysCreates ==
  /\ At("repoList")
  /\ LET c == GCmd("gh repo list", Str(repoArgs.githubIdentity), <<>>, <<>>, <<>>)
     IN  \E x \in HostOutcomes(host, c) :
           /\ execAsync(c, x)
           /\ spc' = "repoCreate"
           /\ UNCHANGED <<repoResult, setupResult>>
  /\ UNCHANGED <<setupArgs, repoArgs, secretsInput, sidx, summary, envResult,
                 secretsResult, skeletonResult>>
  /\ UNCHANGED <<runVars, calls, tool>>

\* Check if repo already exists: repos.includes(args.repoName)
RepoList ==
  /\ At("repoList")
  /\ LET c == GCmd("gh repo list", Str(repoArgs.githubIdentity), <<>>, <<>>, <<>>)
     IN  \E x \in HostOutcomes(host, c) :
           /\ execAsync(c, x)
           /\ IF ArrayIncludes(listGitHubRepos(x), repoArgs.repoName)
              THEN RepoReturn([status |-> "success", repoName |-> fullRepoName])
              ELSE spc' = "repoCreate" /\ UNCHANGED <<repoResult, setupResult>>
  /\ UNCHANGED <<setupArgs, repoArgs, secretsInput, sidx, summary, envResult,
                 secretsResult, skeletonResult>>
  /\ UNCHANGED <<runVars, calls, tool>>

\* Create repo: gh repo create ${fullRepoName} ... --confirm
RepoCreate ==
  /\ At("repoCreate")
  /\ LET c == GCmd("gh repo create", fullRepoName, <<>>, <<>>, <<>>)
     IN  \E x \in HostOutcomes(host, c) :
           /\ execAsync(c, x)
           /\ IF x.err
              THEN RepoReturn(RepoFailed)
              ELSE RepoReturn([status |-> "success", repoName |-> fullRepoName])
  /\ UNCHANGED <<setupArgs, repoArgs, secretsInput, sidx, summary, envResult,
                 secretsResult, skeletonResult>>
  /\ UNCHANGED <<runVars, calls, tool>>

\* ------------------------------------- completeProjectSetup, steps 3 and 3.5
\* await runFoundationProjectHandler({ projectName, orgId, ... }); the log of
\* the tool call takes the call as it is made.
CallFoundation ==
  /\ At("foundation")
  /\ StartHandler([f \in Fields |-> setupArgs[f]])
  /\ spc' = "foundationWait"
  /\ gtrace' = Append(gtrace, [cmd |-> GCmd("runFoundationProjectHandler",
                                            Str(setupArgs.projectName), <<>>, <<>>, <<>>),
                               ok |-> TRUE, at |-> spc])
  /\ UNCHANGED <<host, calls, tool, setupArgs, repoArgs, secretsInput, sidx, summary,
                 repoResult, envResult, secretsResult, skeletonResult, setupResult,
                 pollVars>>

\* const repoFullName = args.githubIdentity?.includes('/') ? args.githubIdentity
\*   : `${args.githubIdentity}/${args.projectName}`
repoFullName ==
  IF Includes(setupArgs.githubIdentity, "/")
  THEN setupArgs.githubIdentity
  ELSE Str(setupArgs.githubIdentity) \o <<"/">> \o Str(setupArgs.projectName)

\* Mutant of AfterFoundation: a failed foundation step does not end the setup.
AfterFoundationIgnoresFailure ==
  /\ At("foundationWait")
  /\ pc = "returned"
  /\ setupResult' = [setupResult EXCEPT !.step3 = "success"]
  /\ spc' = "envList"
  /\ UNCHANGED <<host, setupArgs, repoArgs, secretsInput, sidx, gtrace, summary,
                 repoResult, envResult, secretsResult, skeletonResult>>
  /\ UNCHANGED <<runVars, calls, tool>>

\* The handler has returned: a failed result fails step 3, any other one is
\* followed by createGitHubEnvironments({ repoName: repoFullName }).
AfterFoundation ==
  /\ At("foundationWait")
  /\ pc = "returned"
  /\ IF handlerStatus = "failed"
     THEN SetupFailed("step3", "failed")
     ELSE /\ setupResult' = [setupResult EXCEPT !.step3 = "success"]
          /\ spc' = "envList"
  /\ UNCHANGED <<host, setupArgs, repoArgs, secretsInput, sidx, gtrace, summary,
                 repoResult, envResult, secretsResult, skeletonResult>>
  /\ UNCHANGED <<runVars, calls, tool>>

\* input.projectId.replace(/-fdn-.*/, '')
ReplaceFdn(pid) ==
  IF \E k \in 1..(Len(pid) - 1) : pid[k] = "-fdn" /\ pid[k + 1] = "-"
  THEN LET k == CHOOSE i \in 1..(Len(pid) - 1) :
                  /\ pid[i] = "-fdn" /\ pid[i + 1] = "-"
                  /\ \A j \in 1..(i - 1) : ~(pid[j] = "-fdn" /\ pid[j + 1] = "-")
       IN  SubSeq(pid, 1, k - 1)
  ELSE pid

\* The input completeProjectSetup passes to setupGitHubSecrets:
\* { ...foundationResult, repoName: repoFullName, regions, orgId, ... }
SecretsInputOfSetup ==
  [ foundation |-> TRUE,
    repoName |-> repoFullName,
    githubIdentity |-> result.githubIdentity,
    projectId |-> result.projectId,
    serviceAccount |-> result.serviceAccount,
    projectNumber |-> result.projectNumber,
    workloadIdentityProviders |-> result.workloadIdentityProviders,
    regions |-> setupArgs.regions,
    orgId |-> setupArgs.orgId,
    billingAccount |-> setupArgs.billingAccount,
    ownerEmails |-> setupArgs.ownerEmails ]

\* -------------------------------------------------- createGitHubEnvironments
\* The end of one round of the loop over environments; after the last one the
\* function returns status 'success' when every environment was created or
\* exists and 'partial' otherwise, and completeProjectSetup goes on: anything
\* but 'success' fails the setup, 'success' is followed by setupGitHubSecrets.
EnvNext(results) ==
  IF sidx < Len(environments)
  THEN /\ envResult' = [envResult EXCEPT !.results = results]
       /\ spc' = "envList"
       /\ sidx' = sidx + 1
       /\ UNCHANGED <<setupResult, secretsInput>>
  ELSE LET allCreated == \A i \in DOMAIN results :
                           results[i].status \in {"created", "exists"}
       IN  /\ envResult' = [status |-> IF allCreated THEN "success" ELSE "partial",
                            results |-> results]
           /\ sidx' = 1
           /\ IF allCreated
              THEN /\ secretsInput' = SecretsInputOfSetup
                   /\ spc' = "secretsAuth"
                   /\ UNCHANGED setupResult
              ELSE /\ SetupFailed("step4", "partial")
                   /\ UNCHANGED secretsInput

\* Mutant of EnvList: a failed listing ends the loop over environments.
EnvListStopsOnFailure ==
  /\ At("envList")
  /\ LET c == GCmd("gh api environments", repoFullName, <<>>, <<>>, <<>>)
         env == environments[sidx]
     IN  \E x \in HostOutcomes(host, c) :
           /\ execAsync(c, x)
           /\ IF x.err
              THEN /\ envResult' = [status |-> "partial",
                                    results |-> Append(envResult.results,
                                                       [env |-> env, status |-> "failed"])]
                   /\ sidx' = 1
                   /\ SetupFailed("step4", "partial")
                   /\ UNCHANGED secretsInput
              ELSE IF ArrayIncludes(SplitTrimFilter(x.stdout, "\n"), <<env>>)
              THEN EnvNext(Append(envResult.results, [env |-> env, status |-> "exists"]))
              ELSE /\ spc' = "envPut"
                   /\ UNCHANGED <<envResult, sidx, setupResult, secretsInput>>
  /\ UNCHANGED <<setupArgs, repoArgs, summary, repoResult, secretsResult, skeletonResult>>
  /\ UNCHANGED <<runVars, calls, tool>>

\* Check if environment exists
EnvList ==
  /\ At("envList")
  /\ LET c == GCmd("gh api environments", repoFullName, <<>>, <<>>, <<>>)
         env == environments[sidx]
     IN  \E x \in HostOutcomes(host, c) :
           /\ execAsync(c, x)
           /\ IF x.err
              THEN EnvNext(Append(envResult.results, [env |-> env, status |-> "failed"]))
              ELSE IF ArrayIncludes(SplitTrimFilter(x.stdout, "\n"), <<env>>)
              THEN EnvNext(Append(envResult.results, [env |-> env, status |-> "exists"]))
              ELSE /\ spc' = "envPut"
                   /\ UNCHANGED <<envResult, sidx, setupResult, secretsInput>>
  /\ UNCHANGED <<setupArgs, repoArgs, summary, repoResult, secretsResult, skeletonResult>>
  /\ UNCHANGED <<runVars, calls, tool>>

\* Create environment
EnvPut ==
  /\ At("envPut")
  /\ LET env == environments[sidx]
         c == GCmd("gh api -X PUT", repoFullName, <<env>>, <<>>, <<>>)
     IN  \E x \in HostOutcomes(host, c) :
           /\ execAsync(c, x)
           /\ EnvNext(Append(envResult.results,
                             [env |-> env,
                              status |-> IF x.err THEN "failed" ELSE "created"]))
  /\ UNCHANGED <<setupArgs, repoArgs, summary, repoResult, secretsResult, skeletonResult>>
  /\ UNCHANGED <<runVars, calls, tool>>

\* ---------------------------------------------------------- setupGitHubSecrets
\* The inputs setup_github_secrets is called with: no provider map; a provider
\* map with dev and prod, an empty path for test and no entry for sbx.
SecretsInputs ==
  LET ProviderPath(pid, env) ==
        <<"projects/">> \o pid \o
        <<"/locations/global/workloadIdentityPools/", "p", "-", env, "-pool",
          "/providers/", "github-actions-provider">>
  IN
  { [ NoSecretsInput EXCEPT !.repoName = BaseRepo,
                            !.projectId = <<"p", "-fdn">>,
                            !.serviceAccount = <<"p", "-sa", "@", "x">>,
                            !.githubIdentity = Missing, !.projectNumber = Missing,
                            !.regions = <<"eu">>, !.orgId = Missing,
                            !.billingAccount = Missing, !.ownerEmails = Missing ],
    [ NoSecretsInput EXCEPT !.foundation = TRUE,
                            !.repoName = BaseRepo,
                            !.projectId = <<"p", "-fdn", "-", "0">>,
                            !.serviceAccount = <<"p", "-sa", "@", "x">>,
                            !.githubIdentity = <<"my-org">>, !.projectNumber = <<"#">>,
                            !.workloadIdentityProviders =
                               [env \in {"dev", "test", "prod"} |->
                                  IF env = "test" THEN <<>>
                                  ELSE ProviderPath(<<"p", "-fdn", "-", "0">>, env)],
                            !.regions = <<"eu">>, !.orgId = <<"123">>,
                            !.billingAccount = Missing, !.ownerEmails = <<>> ] }

\* isFoundationResult(input): 'projectId', 'serviceAccount' and
\* 'workloadIdentityProviders' are in the input.
isFoundationResult(input) == input.foundation

\* args.repoName
secretsRepoName ==
  IF isFoundationResult(secretsInput)
  THEN IF Includes(secretsInput.githubIdentity, "/")
       THEN secretsInput.githubIdentity
       ELSE Str(secretsInput.githubIdentity) \o <<"/">> \o ReplaceFdn(secretsInput.projectId)
  ELSE secretsInput.repoName

\* args.workloadIdentityProviders?.[env], Missing for undefined
providerOf(env) ==
  IF env \in DOMAIN secretsInput.workloadIdentityProviders
  THEN secretsInput.workloadIdentityProviders[env]
  ELSE Missing

\* const secrets = [...]
globalSecrets ==
  << [name |-> "GCP_TOOLS_BILLING_ACCOUNT", value |-> secretsInput.billingAccount],
     [name |-> "GCP_TOOLS_FOUNDATION_PROJECT_ID", value |-> secretsInput.projectId],
     [name |-> "GCP_TOOLS_ORG_ID", value |-> secretsInput.orgId],
     [name |-> "GCP_TOOLS_SERVICE_ACCOUNT_EMAIL", value |-> secretsInput.serviceAccount],
     [name |-> "GCP_TOOLS_FOUNDATION_PROJECT_NUMBER", value |-> secretsInput.projectNumber],
     [name |-> "GCP_TOOLS_TERRAFORM_REMOTE_STATE_BUCKET_ID",
      value |-> Str(secretsInput.projectId) \o <<"-terraform-state">>] >>

\* let githubIdentity, let projectName
secretsGithubIdentity ==
  IF isFoundationResult(secretsInput)
  THEN (IF Truthy(secretsInput.githubIdentity) THEN secretsInput.githubIdentity ELSE <<>>)
  ELSE IF Includes(secretsRepoName, "/") THEN Split(secretsRepoName, "/")[1] ELSE <<>>

secretsProjectName ==
  IF isFoundationResult(secretsInput)
  THEN ReplaceFdn(secretsInput.projectId)
  ELSE IF Includes(secretsRepoName, "/") THEN Split(secretsRepoName, "/")[2] ELSE <<>>

\* const fullRegions
fullRegions == secretsInput.regions

\* const variables = [...]
globalVariables ==
  << [name |-> "GCP_TOOLS_DEVELOPER_IDENTITY_SPECIFIER", value |-> secretsInput.ownerEmails],
     [name |-> "GCP_TOOLS_GITHUB_IDENTITY_SPECIFIER", value |-> secretsGithubIdentity],
     [name |-> "GCP_TOOLS_PROJECT_NAME", value |-> secretsProjectName],
     [name |-> "GCP_TOOLS_OWNER_EMAILS", value |-> secretsInput.ownerEmails],
     [name |-> "GCP_TOOLS_REGIONS", value |-> fullRegions] >>

\* The first item at or after index from whose value passes `if (value)`, 0 if
\* there is none.
NextItem(list, from) ==
  IF \E k \in from..Len(list) : Truthy(list[k].value)
  THEN CHOOSE k \in from..Len(list) :
         Truthy(list[k].value) /\ \A j \in from..(k - 1) : ~Truthy(list[j].value)
  ELSE 0

\* Where setupGitHubSecrets goes on after the global secrets up to index k.
AfterSecret(k) ==
  IF NextItem(globalSecrets, k + 1) # 0
  THEN <<"secretsGlobal", NextItem(globalSecrets, k + 1)>>
  ELSE IF NextItem(globalVariables, 1) # 0
  THEN <<"secretsVars", NextItem(globalVariables, 1)>>
  ELSE <<"secretsRegions", 1>>

\* Where setupGitHubSecrets goes on after the variables up to index k.
AfterVariable(k) ==
  IF NextItem(globalVariables, k + 1) # 0
  THEN <<"secretsVars", NextItem(globalVariables, k + 1)>>
  ELSE <<"secretsRegions", 1>>

\* Where the loop over environments goes on after environment i.
AfterEnv(i) ==
  IF i < Len(environments) THEN <<"secretsEnvVar", i + 1>> ELSE AfterSecret(0)

\* setup_github_secrets
StartSecrets(i) ==
  /\ Accept("setup_github_secrets")
  /\ secretsInput' = i
  /\ spc' = "secretsAuth"
  /\ UNCHANGED <<setupArgs, repoArgs>>

\* setupGitHubSecrets returns r; in completeProjectSetup a failed result fails
\* step 4, any other one is followed by createSkeletonApp.
SecretsReturn(r) ==
  /\ secretsResult' = r
  /\ IF tool = "complete_project_setup"
     THEN IF r.status = "failed"
          THEN SetupFailed("step4", "failed")
          ELSE /\ setupResult' = [setupResult EXCEPT !.step4 = "success"]
               /\ spc' = "skeleton"
     ELSE /\ spc' = "done"
          /\ UNCHANGED setupResult

Item(name, env, type, x) ==
  [name |-> name, env |-> env, type |-> type,
   status |-> IF x.err THEN "failed" ELSE "created"]

\* Check if GitHub CLI is available and authenticated
SecretsAuth ==
  /\ At("secretsAuth")
  /\ LET c == GCmd("gh auth status", <<>>, <<>>, <<>>, <<>>)
     IN  \E x \in HostOutcomes(host, c) :
           /\ execAsync(c, x)
           /\ sidx' = 1
           /\ IF x.err
              THEN SecretsReturn([status |-> "failed", repoName |-> secretsRepoName,
                                  results |-> <<>>, summary |-> NoSummary])
              ELSE /\ spc' = "secretsEnvVar"
                   /\ secretsResult' = [status |-> "none", repoName |-> secretsRepoName,
                                        results |-> <<>>, summary |-> NoSummary]
                   /\ UNCHANGED setupResult
  /\ UNCHANGED <<setupArgs, repoArgs, secretsInput, summary, repoResult, envResult,
                 skeletonResult>>
  /\ UNCHANGED <<runVars, calls, tool>>

\* Mutant of SecretsEnvVar: a failure ends the loop over environments.
SecretsEnvVarStopsOnFailure ==
  /\ At("secretsEnvVar")
  /\ LET env == environments[sidx]
         c == GCmd("gh variable set", <<"GCP_TOOLS_ENVIRONMENT">>, secretsRepoName,
                   <<env>>, <<env>>)
     IN  \E x \in HostOutcomes(host, c) :
           /\ execAsync(c, x)
           /\ secretsResult' =
                [secretsResult EXCEPT !.results =
                   Append(@, Item("GCP_TOOLS_ENVIRONMENT", env, "variable", x))]
           /\ IF x.err
              THEN spc' = AfterSecret(0)[1] /\ sidx' = AfterSecret(0)[2]
              ELSE IF Truthy(providerOf(env))
              THEN spc' = "secretsEnvSecret" /\ sidx' = sidx
              ELSE spc' = AfterEnv(sidx)[1] /\ sidx' = AfterEnv(sidx)[2]
  /\ UNCHANGED <<setupArgs, repoArgs, secretsInput, summary, repoResult, envResult,
                 skeletonResult, setupResult>>
  /\ UNCHANGED <<runVars, calls, tool>>

\* Set GCP_TOOLS_ENVIRONMENT variable
SecretsEnvVar ==
  /\ At("secretsEnvVar")
  /\ LET env == environments[sidx]
         c == GCmd("gh variable set", <<"GCP_TOOLS_ENVIRONMENT">>, secretsRepoName,
                   <<env>>, <<env>>)
     IN  \E x \in HostOutcomes(host, c) :
           /\ execAsync(c, x)
           /\ secretsResult' =
                [secretsResult EXCEPT !.results =
                   Append(@, Item("GCP_TOOLS_ENVIRONMENT", env, "variable", x))]
           /\ IF Truthy(providerOf(env))
              THEN spc' = "secretsEnvSecret" /\ sidx' = sidx
              ELSE spc' = AfterEnv(sidx)[1] /\ sidx' = AfterEnv(sidx)[2]
  /\ UNCHANGED <<setupArgs, repoArgs, secretsInput, summary, repoResult, envResult,
                 skeletonResult, setupResult>>
  /\ UNCHANGED <<runVars, calls, tool>>

\* Set GCP_TOOLS_WORKLOAD_IDENTITY_PROVIDER secret
SecretsEnvSecret ==
  /\ At("secretsEnvSecret")
  /\ LET env == environments[sidx]
         c == GCmd("gh secret set", <<"GCP_TOOLS_WORKLOAD_IDENTITY_PROVIDER">>,
                   secretsRepoName, <<env>>, providerOf(env))
     IN  \E x \in HostOutcomes(host, c) :
           /\ execAsync(c, x)
           /\ secretsResult' =
                [secretsResult EXCEPT !.results =
                   Append(@, Item("GCP_TOOLS_WORKLOAD_IDENTITY_PROVIDER", env, "secret", x))]
           /\ spc' = AfterEnv(sidx)[1] /\ sidx' = AfterEnv(sidx)[2]
  /\ UNCHANGED <<setupArgs, repoArgs, secretsInput, summary, repoResult, envResult,
                 skeletonResult, setupResult>>
  /\ UNCHANGED <<runVars, calls, tool>>

\* Global secrets
SecretsGlobal ==
  /\ At("secretsGlobal")
  /\ LET s == globalSecrets[sidx]
         c == GCmd("gh secret set", <<s.name>>, secretsRepoName, <<>>, s.value)
     IN  \E x \in HostOutcomes(host, c) :
           /\ execAsync(c, x)
           /\ secretsResult' =
                [secretsResult EXCEPT !.results = Append(@, Item(s.name, "", "secret", x))]
           /\ spc' = AfterSecret(sidx)[1] /\ sidx' = AfterSecret(sidx)[2]
  /\ UNCHANGED <<setupArgs, repoArgs, secretsInput, summary, repoResult, envResult,
                 skeletonResult, setupResult>>
  /\ UNCHANGED <<runVars, calls, tool>>

\* Global variables
SecretsVars ==
  /\ At("secretsVars")
  /\ LET v == globalVariables[sidx]
         c == GCmd("gh variable set", <<v.name>>, secretsRepoName, <<>>, v.value)
     IN  \E x \in HostOutcomes(host, c) :
           /\ execAsync(c, x)
           /\ secretsResult' =
                [secretsResult EXCEPT !.results = Append(@, Item(v.name, "", "variable", x))]
           /\ spc' = AfterVariable(sidx)[1] /\ sidx' = AfterVariable(sidx)[2]
  /\ UNCHANGED <<setupArgs, repoArgs, secretsInput, summary, repoResult, envResult,
                 skeletonResult, setupResult>>
  /\ UNCHANGED <<runVars, calls, tool>>

\* summary: the entries created of each type, and results.length
secretsSummary(results) ==
  [ secretsCreated |->
      Cardinality({ i \in DOMAIN results :
                      results[i].type = "secret" /\ results[i].status = "created" }),
    variablesCreated |->
      Cardinality({ i \in DOMAIN results :
                      results[i].type = "variable" /\ results[i].status = "created" }),
    workflowsCreated |-> 0,
    totalItems |-> Len(results) ]

\* gh variable set GCP_TOOLS_REGIONS, then return { status: 'success', ... }
SecretsRegions ==
  /\ At("secretsRegions")
  /\ LET c == GCmd("gh variable set", <<"GCP_TOOLS_REGIONS">>, secretsRepoName, <<>>,
                   Str(fullRegions))
     IN  \E x \in HostOutcomes(host, c) :
           /\ execAsync(c, x)
           /\ LET results == Append(secretsResult.results,
                                    Item("GCP_TOOLS_REGIONS", "", "variable", x))
              IN  SecretsReturn([status |-> "success", repoName |-> secretsRepoName,
                                 results |-> results,
                                 summary |-> secretsSummary(results)])
  /\ sidx' = 1
  /\ UNCHANGED <<setupArgs, repoArgs, secretsInput, summary, repoResult, envResult,
                 skeletonResult>>
  /\ UNCHANGED <<runVars, calls, tool>>

\* ---------------------------------------------------------- createSkeletonApp
\* join(homedir(), codePath, githubIdentity, projectName)
targetPath == Str(setupArgs.githubIdentity) \o <<"/">> \o Str(setupArgs.projectName)

\* createSkeletonApp: fails when the target path exists; clones the example
\* app, installs, rebrands, commits and pushes, and fails when one of these
\* commands does. completeProjectSetup records its status as step 5 and
\* returns status 'success'.
Skeleton ==
  /\ At("skeleton")
  /\ \E o \in IF targetPath \in host.paths THEN {"exists"}
              ELSE {"cloneFailed", "pushFailed", "success"} :
       /\ host' = IF o \in {"pushFailed", "success"}
                  THEN [host EXCEPT !.paths = @ \cup {targetPath}] ELSE host
       /\ gtrace' = IF o = "exists" THEN gtrace
                    ELSE Append(gtrace, [cmd |-> GCmd("git clone", targetPath, <<>>, <<>>, <<>>),
                                         ok |-> o # "cloneFailed", at |-> spc])
       /\ skeletonResult' = IF o = "success" THEN "success" ELSE "failed"
       /\ setupResult' = [setupResult EXCEPT !.status = "success",
                                             !.step5 = IF o = "success" THEN "success"
                                                                        ELSE "failed"]
  /\ spc' = "done"
  /\ UNCHANGED <<setupArgs, repoArgs, secretsInput, sidx, summary, repoResult, envResult,
                 secretsResult>>
  /\ UNCHANGED <<runVars, calls, tool>>

\* ------------------------------------------------------------------- the server
SetupStep ==
  \/ PrereqCheck
  \/ PrereqInstall
  \/ GhAuthCheck
  \/ GcloudAuthCheck
  \/ RepoGhVersion
  \/ RepoAuth
  \/ RepoList
  \/ RepoCreate
  \/ CallFoundation
  \/ AfterFoundation
  \/ EnvList
  \/ EnvPut
  \/ SecretsAuth
  \/ SecretsEnvVar
  \/ SecretsEnvSecret
  \/ SecretsGlobal
  \/ SecretsVars
  \/ SecretsRegions
  \/ Skeleton

\* The server serves the setup tools one call at a time; the steps of
\* runFoundationProject are those of the call completeProjectSetup makes.
NextSetup ==
  \/ \E q \in SetupRequests : StartComplete(q)
  \/ \E a \in RepoRequests : StartRepo(a)
  \/ \E i \in SecretsInputs : StartSecrets(i)
  \/ SetupStep
  \/ Step

InitSetup == InitRun /\ host \in Hosts /\ SetupIdle /\ PollIdle

SpecSetup == InitSetup /\ [][NextSetup]_vars

\* ------------------------------------------------------ pollGithubDeployment
\* (handlers/tool/poll-github-deployment.mts)

\* Listings of one call that the loop condition lets through before the
\* deadline.
MaxPolls == 3
\* Seconds the clock is followed past the deadline of a call.
MaxOverrun == 1

\* The parameters of a call: ref absent, empty or a branch; interval and
\* timeout in seconds, both given.
PollRequests ==
  { [ref |-> r, interval |-> i, timeout |-> t] :
      r \in {Missing, <<>>, <<"main">>}, i \in {0, 1, 2}, t \in {0, 2} }

\* The conclusions GitHub gives a completed workflow run (four of them).
Conclusions == {"success", "failure", "cancelled", "skipped"}

\* The latest run of the workflow, as --json status,conclusion,databaseId,
\* headBranch prints it; the run on main has id 1, the one on dev id 2.
WorkflowRuns ==
  LET IdOf(b) == IF b = <<"main">> THEN 1 ELSE 2
  IN  { [status |-> "in_progress", conclusion |-> "", databaseId |-> IdOf(b),
         headBranch |-> b] : b \in {<<"main">>, <<"dev">>} }
      \cup
      { [status |-> "completed", conclusion |-> c, databaseId |-> IdOf(b),
         headBranch |-> b] : c \in Conclusions, b \in {<<"main">>, <<"dev">>} }

\* What `gh run list ... --limit 1 --json ...` settles with: the command
\* fails, or it prints something that is not JSON, or the array of at most one
\* run.
ListingOutcomes ==
  { [settled |-> TRUE, err |-> TRUE, json |-> FALSE, runs |-> <<>>],
    [settled |-> TRUE, err |-> FALSE, json |-> FALSE, runs |-> <<>>],
    [settled |-> TRUE, err |-> FALSE, json |-> TRUE, runs |-> <<>>] }
  \cup { [settled |-> TRUE, err |-> FALSE, json |-> TRUE, runs |-> <<r>>] :
           r \in WorkflowRuns }

\* The listing that has not settled yet.
Pending == [settled |-> FALSE, err |-> FALSE, json |-> FALSE, runs |-> <<>>]

\* return { status, conclusion, runId, ... }
PollReturn(status, conclusion, runId) ==
  /\ pollResult' = [status |-> status, conclusion |-> conclusion, runId |-> runId]
  /\ ppc' = "returned"

\* await sleep(interval * 1000)
sleep ==
  /\ wake' = clock + pollParams.interval
  /\ ppc' = "sleep"

\* pollGithubDeployment({ repo, workflow, ref, interval, timeout }): const
\* start = Date.now(), const deadline, let lastConclusion, let lastRunId.
PollStart(q) ==
  /\ ppc = "idle"
  /\ pollParams' = q
  /\ deadline' = clock + q.timeout
  /\ lastConclusion' = ""
  /\ lastRunId' = 0
  /\ polls' = <<>>
  /\ ppc' = "while"
  /\ UNCHANGED <<clock, wake, pollResult, progVars>>

\* while (Date.now() < deadline): the listing is issued; after the loop,
\* return { status: 'timeout', conclusion: lastConclusion, runId: lastRunId }.
PollWhile ==
  /\ ppc = "while"
  /\ clock < deadline => Len(polls) < MaxPolls
  /\ IF clock < deadline
     THEN /\ polls' = Append(polls, [at |-> clock, out |-> Pending])
          /\ ppc' = "exec"
          /\ UNCHANGED pollResult
     ELSE /\ PollReturn("timeout", lastConclusion, lastRunId)
          /\ UNCHANGED polls
  /\ UNCHANGED <<pollParams, clock, deadline, wake, lastConclusion, lastRunId, progVars>>

\* Mutant of PollExec: the branch of the latest run is not compared with ref.
PollExecIgnoresRef ==
  /\ ppc = "exec"
  /\ \E x \in ListingOutcomes :
       /\ polls' = [polls EXCEPT ![Len(polls)].out = x]
       /\ IF x.err \/ ~x.json
          THEN /\ PollReturn("error", "<undefined>", -1)
               /\ UNCHANGED <<wake, lastConclusion, lastRunId>>
          ELSE IF x.runs = <<>>
          THEN sleep /\ UNCHANGED <<pollResult, lastConclusion, lastRunId>>
          ELSE LET latest == x.runs[1]
               IN  IF FALSE
                   THEN sleep /\ UNCHANGED <<pollResult, lastConclusion, lastRunId>>
                   ELSE /\ lastConclusion' = latest.conclusion
                        /\ lastRunId' = latest.databaseId
                        /\ IF latest.status \in {"completed"}
                           THEN /\ PollReturn(IF latest.conclusion # "" THEN latest.conclusion
                                              ELSE "success",
                                              latest.conclusion, latest.databaseId)
                                /\ UNCHANGED wake
                           ELSE sleep /\ UNCHANGED pollResult
  /\ UNCHANGED <<pollParams, clock, deadline, progVars>>

\* const { stdout } = await exec(cmd) settles, and the rest of the try block
\* and its catch.
PollExec ==
  /\ ppc = "exec"
  /\ \E x \in ListingOutcomes :
       /\ polls' = [polls EXCEPT ![Len(polls)].out = x]
       /\ IF x.err \/ ~x.json
          THEN /\ PollReturn("error", "<undefined>", -1)
               /\ UNCHANGED <<wake, lastConclusion, lastRunId>>
          ELSE IF x.runs = <<>>
          THEN sleep /\ UNCHANGED <<pollResult, lastConclusion, lastRunId>>
          ELSE LET latest == x.runs[1]
               IN  IF Truthy(pollParams.ref) /\ latest.headBranch # pollParams.ref
                   THEN sleep /\ UNCHANGED <<pollResult, lastConclusion, lastRunId>>
                   ELSE /\ lastConclusion' = latest.conclusion
                        /\ lastRunId' = latest.databaseId
                        /\ IF latest.status \in {"completed"}
                           THEN /\ PollReturn(IF latest.conclusion # "" THEN latest.conclusion
                                              ELSE "success",
                                              latest.conclusion, latest.databaseId)
                                /\ UNCHANGED wake
                           ELSE sleep /\ UNCHANGED pollResult
  /\ UNCHANGED <<pollParams, clock, deadline, progVars>>

\* The timer of sleep(ms) fires: setTimeout resolves no earlier than ms after
\* it was set.
PollWake ==
  /\ ppc = "sleep"
  /\ clock >= wake
  /\ ppc' = "while"
  /\ UNCHANGED <<pollParams, clock, deadline, wake, lastConclusion, lastRunId, polls,
                 pollResult, progVars>>

\* A second passes while the call is under way.
PollTick ==
  /\ ppc \in {"while", "exec", "sleep"}
  /\ \/ clock < deadline + MaxOverrun
     \/ ppc = "sleep" /\ clock < wake
  /\ clock' = clock + 1
  /\ UNCHANGED <<pollParams, ppc, deadline, wake, lastConclusion, lastRunId, polls,
                 pollResult, progVars>>

PollStep == PollWhile \/ PollExec \/ PollWake

NextPoll ==
  \/ \E q \in PollRequests : PollStart(q)
  \/ PollWhile
  \/ PollExec
  \/ PollWake
  \/ PollTick

SpecPoll == Init /\ [][NextPoll]_vars

\* The clock advances and every listing settles.
SpecPollLive == SpecPoll /\ WF_vars(PollTick) /\ WF_vars(PollStep)

\* ------------------------------------------------------------------ claims
Last == trace[Len(trace)]

CreatePcs == { "createProject", "link", "saCreate", "poolCreate",
               "githubProviderCreate", "devProviderCreate", "bucketCreate" }

\* The ids of the account that the project regex of the current request matches.
Matching(ids) == { p \in ids : ProjectRegexTest(req.projectName, p) }

\* The current run is a rerun of a run that succeeded with the same request.
Rerun == prev.ended = "success" /\ prev.req = req

\* Entry c is the creation command of the resource that probe entry p asked about.
CreatesWhatWasProbed(p, c) ==
  CASE p.cmd.op = "projects list" ->
         c.cmd.op = "projects create" /\ c.cmd.a = FreshProjectId(req.projectName, timestamp)
    [] p.cmd.op = "billing projects describe" ->
         c.cmd.op = "billing projects link" /\ c.cmd.a = p.cmd.a
    [] p.cmd.op = "service-accounts list" ->
         c.cmd.op = "service-accounts create" /\ c.cmd.a = p.cmd.a
    [] p.cmd.op = "pools describe" ->
         c.cmd.op = "pools create" /\ c.cmd.a = p.cmd.a /\ c.cmd.b = p.cmd.b
    [] p.cmd.op = "providers describe" ->
         /\ c.cmd.op = "providers create-oidc"
         /\ c.cmd.a = p.cmd.a /\ c.cmd.b = p.cmd.b /\ c.cmd.c = p.cmd.c
    [] p.cmd.op = "buckets describe" ->
         c.cmd.op = "buckets create" /\ c.cmd.a = p.cmd.a
    [] OTHER -> FALSE

\* The step that issues the creation command for what probe entry p asked about.
CreatePcOf(p) ==
  CASE p.cmd.op = "projects list"             -> "createProject"
    [] p.cmd.op = "billing projects describe" -> "link"
    [] p.cmd.op = "service-accounts list"     -> "saCreate"
    [] p.cmd.op = "pools describe"            -> "poolCreate"
    [] p.cmd.op = "providers describe"        ->
         IF p.cmd.c = githubProviderId THEN "githubProviderCreate" ELSE "devProviderCreate"
    [] p.cmd.op = "buckets describe"          -> "bucketCreate"
    [] OTHER                                  -> "none"

\* C1 as stated: a rerun of a successful run with the identical request issues
\* no mutating command at all (no create, link, enable or add-iam-policy-binding).
C1_NoMutationOnRerun ==
  Rerun => \A i \in DOMAIN trace : trace[i].cmd.op \notin MutatingOps

\* C1 amended: in a rerun of a successful run with the identical request, a
\* creation or link step is reached only when the probe just before it failed
\* (the project step always, the other steps when the listing's first match is
\* the project the first run used); the enable, binding and grant commands
\* are issued again.
C1_RerunCreatesOnlyAfterProbeError ==
  Rerun =>
    /\ pc = "createProject" => lastExec.err
    /\ (projectId = prev.result.projectId /\ pc \in CreatePcs) => lastExec.err
    /\ (pc = "returned" /\ result.ok) =>
         Cardinality({i \in DOMAIN trace : trace[i].cmd.op \in ApplyOps}) =
           Len(apis) + Len(projectRoles) + Len(orgRoles) + 1 + Len(pools) + 1

\* C1 witness: a rerun with the identical request has completed without any
\* creation or link command.
C1_Witness ==
  /\ Rerun /\ pc = "returned" /\ result.ok
  /\ \A i \in DOMAIN trace : trace[i].cmd.op \notin CreateOps

\* C2: within a run a creation command is issued exactly for the probes that
\* reported the resource absent, directly after the probe; after a probe that
\* reported it present the run goes on with the step after the creation.
C2_CreateIffProbeAbsent ==
  \A i \in DOMAIN trace :
    /\ trace[i].class = "probe" /\ trace[i].verdict = "absent" =>
         IF i < Len(trace) THEN CreatesWhatWasProbed(trace[i], trace[i + 1])
                           ELSE pc = CreatePcOf(trace[i])
    /\ trace[i].class = "probe" /\ trace[i].verdict = "present" =>
         /\ \A j \in DOMAIN trace : j > i => ~CreatesWhatWasProbed(trace[i], trace[j])
         /\ i = Len(trace) => pc \notin (CreatePcs \cup {"exited"})
    /\ trace[i].cmd.op \in CreateOps =>
         /\ i > 1
         /\ trace[i - 1].class = "probe" /\ trace[i - 1].verdict = "absent"
         /\ CreatesWhatWasProbed(trace[i - 1], trace[i])

\* C2 witness: one run has skipped a creation after a probe reported the
\* resource present and issued another after a probe reported it absent.
C2_Witness ==
  /\ \E i \in DOMAIN trace : trace[i].class = "probe" /\ trace[i].verdict = "present"
                             /\ i < Len(trace)
  /\ \E i \in DOMAIN trace : trace[i].cmd.op = "pools create"

\* C3: when the organization binding fails for one of the org roles, it is the
\* last command of the run, and the error written carries the label
\* 'Assign Org Role: <role>' and the failing command.
C3_OrgRoleFailFast ==
  \A i \in DOMAIN trace :
    (trace[i].cmd.op = "organizations add-iam-policy-binding" /\ trace[i].verdict = "fail")
    => /\ i = Len(trace)
       /\ pc = "exited"
       /\ lastError.label = <<"Step failed: ", "Assign Org Role: ">> \o trace[i].cmd.c
       /\ lastError.cmd = trace[i].cmd
       /\ \E k \in DOMAIN orgRoles : trace[i].cmd.c = <<orgRoles[k]>> /\ idx = k

\* C3 witness: the binding of an org role in the middle of the list has failed.
C3_Witness ==
  /\ trace # <<>>
  /\ Last.cmd.op = "organizations add-iam-policy-binding"
  /\ Last.verdict = "fail"
  /\ lastExec.err
  /\ Last.cmd.c = <<"roles/compute.admin">>

\* C4: when a provisioning command fails in a request served by
\* runFoundationProjectHandler, the handler returns { status: 'failed' } and the
\* serving process stays alive.
C4_HandlerReturnsFailure ==
  (entry = "handler" /\ trace # <<>> /\ Last.class = "run" /\ Last.verdict = "fail")
  => (serverAlive /\ handlerStatus = "failed")

\* C5: on every entry path a request with a missing or empty required field, or
\* with no non-empty region, is rejected before any external command is executed.
C5_ValidationBeforeCommands ==
  (runs > 0 /\ ~InputSchemaOk(args)) => trace = <<>>

\* C6 as stated: the runs never leave more than one project of the prefix that
\* they created in the account, and never issue projects-create while one exists.
C6_AtMostOneProject ==
  /\ Cardinality(Matching(created)) <= 1
  /\ pc = "createProject" => Matching(created) = {}

\* C6 amended: a projects-create is issued while a project of the prefix exists
\* only in a run whose listing probe failed; a run whose listing probe
\* succeeded reuses a project of the prefix that the account holds.
C6_CreateOnlyWhenNoneListed ==
  /\ pc = "createProject" => (lastExec.err \/ Matching(account.projects) = {})
  /\ (Len(trace) = 1 /\ ~lastExec.err /\ Matching(account.projects) # {}) =>
        (pc = "billingProbe" /\ projectId \in Matching(account.projects))

\* C6 witness: a later run has found the project an earlier run created and
\* goes on with it.
C6_Witness ==
  /\ runs > 1
  /\ Len(trace) = 1 /\ ~lastExec.err
  /\ pc = "billingProbe"
  /\ projectId \in created

\* C7: when the listing holds ids matching the project regex, no project is
\* created and projectId is the first of them in listing order; when it holds
\* none, the project created is {prefix}-fdn-{timestamp}.
C7_FirstListedMatch ==
  /\ (Len(trace) = 1 /\ Last.cmd.op = "projects list") =>
       IF \E i \in DOMAIN projects : ProjectRegexTest(req.projectName, projects[i])
       THEN /\ pc = "billingProbe"
            /\ \E i \in DOMAIN projects :
                 /\ ProjectRegexTest(req.projectName, projects[i])
                 /\ \A j \in 1..(i - 1) : ~ProjectRegexTest(req.projectName, projects[j])
                 /\ projectId = projects[i]
       ELSE /\ pc = "createProject"
            /\ projectId = Str(req.projectName) \o <<"-fdn", "-", ToString(timestamp)>>
  /\ \A i \in DOMAIN trace :
       trace[i].cmd.op = "projects create" =>
         /\ trace[1].verdict = "absent"
         /\ trace[i].cmd.a = Str(req.projectName) \o <<"-fdn", "-", ToString(timestamp)>>

\* C7 witness: the listing held two matching ids behind a non-matching one.
C7_Witness ==
  /\ Len(trace) = 1 /\ pc = "billingProbe"
  /\ Len(projects) >= 3
  /\ ~ProjectRegexTest(req.projectName, projects[1])
  /\ ProjectRegexTest(req.projectName, projects[2])
  /\ ProjectRegexTest(req.projectName, projects[3])
  /\ projects[2] # projects[3]

C9_RunFailsOnlyOnExitOrEmptyNumber ==
  (trace # <<>> /\ Last.class = "run") =>
    ( pc = "exited" <=>
        ( \/ lastExec.err
          \/ Last.cmd.op = "projects describe" /\ Trim(lastExec.stdout) = <<>> ) )

\* C10: a probe whose command fails reports absent (the empty list, false),
\* leaves the run and its process running, and the run is at the step that
\* issues the creation command for what was probed.
C10_ProbeErrorMeansAbsent ==
  (trace # <<>> /\ Last.class = "probe" /\ lastExec.err) =>
    /\ Last.verdict = "absent"
    /\ (Last.cmd.op = "projects list" => projects = <<>>)
    /\ pc = CreatePcOf(Last)
    /\ exitCode = -1
    /\ lastError = NoError
    /\ entry = "handler" => serverAlive

\* C10 witness: the probe of a service account that exists has failed.
C10_Witness ==
  /\ trace # <<>> /\ Last.cmd.op = "service-accounts list" /\ lastExec.err
  /\ <<projectId, serviceAccountEmail>> \in account.sas
  /\ pc = "saCreate"

\* The stage of runFoundationProject that a command belongs to.
Stage(op) ==
  CASE op \in {"projects list", "projects create"}                   -> 1
    [] op \in {"billing projects describe", "billing projects link"} -> 2
    [] op = "projects describe"                                      -> 3
    [] op = "services enable"                                        -> 4
    [] op \in {"service-accounts list", "service-accounts create"}   -> 5
    [] op = "projects add-iam-policy-binding"                        -> 6
    [] op \in {"organizations add-iam-policy-binding",
               "billing accounts add-iam-policy-binding"}            -> 7
    [] op \in {"pools describe", "pools create",
               "providers describe", "providers create-oidc"}        -> 8
    [] op = "service-accounts add-iam-policy-binding"                -> 9
    [] op \in {"buckets describe", "buckets create"}                 -> 10
    [] OTHER                                                         -> 0

\* C11: the commands of a run appear in the order of the ten stages (project,
\* billing link, project number, APIs, service account, project bindings, org
\* and billing bindings, pools and providers, grants, bucket): the stage never
\* decreases from one command to the next, the first command is of the first
\* stage, no stage is skipped, and a run that returns has gone through the last.
C11_FixedStageOrder ==
  /\ trace # <<>> => Stage(trace[1].cmd.op) = 1
  /\ \A i \in 1..(Len(trace) - 1) :
       LET a == Stage(trace[i].cmd.op)
           b == Stage(trace[i + 1].cmd.op)
       IN  a <= b /\ b <= a + 1
  /\ (pc = "returned" /\ result.ok) => Stage(Last.cmd.op) = 10

\* C11 witness: a run that had to create everything has returned.
C11_Witness ==
  /\ pc = "returned" /\ result.ok
  /\ \A op \in CreateOps : \E i \in DOMAIN trace : trace[i].cmd.op = op
  /\ Last.cmd.op = "buckets create"

\* C12: within one invocation at most one external process (probe or mutating
\* command) is in flight at any time: a process is spawned only when none is in
\* flight, and none is in flight once the run has returned or exited.
C12_OneProcessInFlight ==
  /\ inflight \in {0, 1}
  /\ pc \notin StepPcs => inflight = 0

\* C12 witness: a mutating command is in flight after the probe before it, and
\* the commands before it, have settled.
C12_Witness ==
  /\ inflight = 1
  /\ pc = "poolCreate"
  /\ trace # <<>> /\ Last.cmd.op = "pools describe" /\ Last.verdict = "absent"

\* C13: when a command run through run() fails, it is the last command of the
\* run (it is not issued again and nothing follows it), the run has exited with
\* nothing in flight, no command of the run is a compensating one (every
\* command is a probe, a lookup, a create, a link, an enable or an
\* add-binding), and what the earlier creation commands of the run created is
\* still in the account.
C13_AbortNoRetryNoCleanup ==
  /\ \A i \in DOMAIN trace : trace[i].cmd.op \in ReadOps \cup MutatingOps
  /\ \A i \in DOMAIN trace :
       (trace[i].class = "run" /\ trace[i].verdict = "fail") =>
         /\ i = Len(trace)
         /\ pc = "exited" /\ exitCode = 1 /\ inflight = 0
         /\ \A j \in 1..(i - 1) :
              /\ trace[j].cmd # trace[i].cmd
              /\ trace[j].cmd.op \in CreateOps => Effect(account, trace[j].cmd) = account

\* C13 witness: a run that created its project has been aborted by the failure
\* of a pool creation, and the project is in the account.
C13_Witness ==
  /\ pc = "exited"
  /\ trace # <<>> /\ Last.cmd.op = "pools create" /\ Last.verdict = "fail"
  /\ \E j \in DOMAIN trace : trace[j].cmd.op = "projects create" /\ trace[j].cmd.a = projectId
  /\ projectId \in account.projects

\* The current run follows a run with the same request that a command failure
\* aborted, and no command of the current run fails by itself.
RerunAfterAbort == prev.ended = "failed" /\ prev.req = req /\ reliable

\* The projects an earlier run created that the account held when the current
\* run started.
AbortedProjects == created \cap prev.account.projects

C14_RerunSafe ==
  RerunAfterAbort =>
    /\ pc # "exited"
    /\ (trace # <<>> /\ Matching(prev.account.projects) # {}) =>
         /\ projectId \in Matching(prev.account.projects)
         /\ \A i \in DOMAIN trace : trace[i].cmd.op # "projects create"
    /\ (trace # <<>> /\ AbortedProjects # {}
          /\ Matching(prev.account.projects) \subseteq AbortedProjects) =>
         projectId \in AbortedProjects
    /\ \A i \in DOMAIN trace :
         trace[i].cmd.op \in CreateOps =>
           Effect(prev.account, trace[i].cmd) # prev.account

SpecLive ==
  /\ Init /\ [][Next]_vars
  /\ WF_vars(exec)
  /\ WF_vars(Return)
  /\ []<>(inflight = 0)

CreateOpOf(op) ==
  CASE op = "projects list"             -> "projects create"
    [] op = "billing projects describe" -> "billing projects link"
    [] op = "service-accounts list"     -> "service-accounts create"
    [] op = "pools describe"            -> "pools create"
    [] op = "providers describe"        -> "providers create-oidc"
    [] op = "buckets describe"          -> "buckets create"
    [] OTHER                            -> "none"

\* In the commands t of an invocation that stands at p, every probe that
\* reported absent is followed by the creation command that rests on it.
AbsentThenCreate(t, p) ==
  \A i \in DOMAIN t :
    (t[i].class = "probe" /\ t[i].verdict = "absent") =>
      IF i < Len(t) THEN t[i + 1].cmd.op = CreateOpOf(t[i].cmd.op)
                    ELSE p = CreatePcOf(t[i])

\* C15: of two overlapping invocations for the same prefix, each one that has
\* observed 'absent' from a probe issues the creation command next, whatever
\* the other one has created in between (there is no lock and no second
\* look); a creation command that the remote side then refuses is one for a
\* resource the account holds by now. So both can issue the creation command for
\* the same logical resource, and two projects of one prefix can result.
C15_BothCreateAfterAbsent ==
  /\ AbsentThenCreate(trace, pc)
  /\ AbsentThenCreate(other.trace, other.pc)
  /\ (trace # <<>> /\ Last.cmd.op \in CreateOps /\ Last.verdict = "fail") =>
        Effect(account, Last.cmd) = account

\* C15 witness: both of two overlapping invocations observed no project of the
\* prefix, both have created one, and the account holds both.
C15_Witness ==
  /\ trace # <<>> /\ other.trace # <<>>
  /\ trace[1].verdict = "absent" /\ other.trace[1].verdict = "absent"
  /\ \E i \in DOMAIN trace : \E j \in DOMAIN other.trace :
       /\ trace[i].cmd.op = "projects create" /\ trace[i].verdict = "ok"
       /\ other.trace[j].cmd.op = "projects create" /\ other.trace[j].verdict = "ok"
       /\ trace[i].cmd.a # other.trace[j].cmd.a
       /\ {trace[i].cmd.a, other.trace[j].cmd.a} \subseteq Matching(account.projects)

\* C16: a successful run returns serviceAccount = {prefix}-sa@{projectId}
\* .iam.gserviceaccount.com and terraformStateBucket = {projectId}
\* -terraform-state for the projectId it returns; when the account held no
\* project of the prefix at the start of the run, that projectId is
\* {prefix}-fdn-{digits} and the run created it; when the run created no
\* project, the projectId is a project of the prefix that the account held.
C16_NamesDerivedFromProjectId ==
  (pc = "returned" /\ result.ok) =>
    /\ result.serviceAccount =
         Str(req.projectName) \o <<"-sa", "@">> \o result.projectId
           \o <<".iam.gserviceaccount.com">>
    /\ result.terraformStateBucket = result.projectId \o <<"-terraform-state">>
    /\ Matching(prev.account.projects) = {} =>
         /\ \E d \in Digits : result.projectId = Str(req.projectName) \o <<"-fdn", "-", d>>
         /\ \E i \in DOMAIN trace :
              trace[i].cmd.op = "projects create" /\ trace[i].cmd.a = result.projectId
    /\ (\A i \in DOMAIN trace : trace[i].cmd.op # "projects create") =>
         result.projectId \in Matching(prev.account.projects)

\* C16 witness: a run for a prefix without a project in the account has
\* returned, at a time other than 0.
C16_Witness ==
  /\ pc = "returned" /\ result.ok
  /\ Matching(prev.account.projects) = {}
  /\ timestamp = 1
  /\ result.projectId = <<"p", "-fdn", "-", "1">>

\* The trust scope a condition or a principal-set path starts with.
ScopeOf(s) ==
  IF s = <<>> THEN "none"
  ELSE IF Head(s) \in {"assertion.repository == '", "attribute.repository/"}
       THEN "repository"
  ELSE IF Head(s) \in {"assertion.repository_owner == '", "attribute.repository_owner/"}
       THEN "owner"
  ELSE "other"

\* The commands of the run that create a CI provider.
CiProviderCreates ==
  { i \in DOMAIN trace : /\ trace[i].cmd.op = "providers create-oidc"
                         /\ trace[i].cmd.c = <<"github-actions-provider">> }

\* The commands of the run that grant impersonation to a pool's CI principal set.
CiGrants ==
  { i \in DOMAIN trace : /\ trace[i].cmd.op = "service-accounts add-iam-policy-binding"
                         /\ Head(trace[i].step) = "Grant Impersonation for Pool: " }

\* C17: in every run, the attribute condition of every CI provider created and
\* the principal-set path of every grant to a pool's CI principal set have the
\* same scope: with '/' in githubIdentity the condition is assertion.repository
\* == '<id>' and the path attribute.repository/<id>, without it they are
\* assertion.repository_owner == '<id>' and attribute.repository_owner/<id>.
\* (The developer grant of the dev pool uses attribute.email/<developerIdentity>.)
C17_IdentityScopeConsistent ==
  LET id == req.githubIdentity
      scope == IF \E k \in DOMAIN id : id[k] = "/" THEN "repository" ELSE "owner"
  IN  /\ \A i \in CiProviderCreates :
           /\ ScopeOf(trace[i].cmd.d) = scope
           /\ trace[i].cmd.d =
                (IF scope = "repository" THEN <<"assertion.repository == '">>
                                         ELSE <<"assertion.repository_owner == '">>)
                  \o id \o <<"'">>
      /\ \A i \in CiGrants :
           /\ ScopeOf(trace[i].cmd.d) = scope
           /\ trace[i].cmd.d =
                (IF scope = "repository" THEN <<"attribute.repository/">>
                                         ELSE <<"attribute.repository_owner/">>)
                  \o id
      /\ \A i \in DOMAIN trace :
           (trace[i].cmd.op = "service-accounts add-iam-policy-binding" /\ i \notin CiGrants)
             => trace[i].cmd.d = <<"attribute.email/">> \o Str(req.developerIdentity)

\* C17 witness: a run for an owner/repo identity has created a CI provider and
\* has granted impersonation to the CI principal set of the last pool.
C17_Witness ==
  /\ \E k \in DOMAIN req.githubIdentity : req.githubIdentity[k] = "/"
  /\ CiProviderCreates # {}
  /\ \E i \in CiGrants : trace[i].cmd.c = Str(req.projectName) \o <<"-", "prod", "-pool">>

\* The four pool ids of the current request.
FourPoolIds ==
  { Str(req.projectName) \o <<"-", e, "-pool">> : e \in {"dev", "test", "sbx", "prod"} }

\* C18: a successful run has verified or created exactly the four pools
\* {prefix}-dev-pool, -test-pool, -sbx-pool and -prod-pool of its project, each
\* with the github-actions-provider, and the local-developer-provider in the
\* dev pool only; in no state has any run asked for, or the account got, a
\* local-developer-provider in another pool, and its condition is 'true'.
C18_FourPoolsOneDevProvider ==
  LET devPool == Str(req.projectName) \o <<"-", "dev", "-pool">>
  IN  /\ (pc = "returned" /\ result.ok) =>
           /\ { trace[i].cmd.b : i \in { k \in DOMAIN trace :
                                           trace[k].cmd.op = "pools describe" } }
                = FourPoolIds
           /\ { x \in account.pools : x[1] = projectId }
                = { <<projectId, n>> : n \in FourPoolIds }
           /\ { x \in account.providers : x[1] = projectId }
                = { <<projectId, n, <<"github-actions-provider">>>> : n \in FourPoolIds }
                    \cup { <<projectId, devPool, <<"local-developer-provider">>>> }
      /\ \A i \in DOMAIN trace :
           trace[i].cmd.op \in {"pools describe", "pools create",
                                "providers describe", "providers create-oidc"} =>
             /\ trace[i].cmd.b \in FourPoolIds
             /\ trace[i].cmd.op \in {"providers describe", "providers create-oidc"} =>
                  \/ trace[i].cmd.c = <<"github-actions-provider">>
                  \/ /\ trace[i].cmd.c = <<"local-developer-provider">>
                     /\ trace[i].cmd.b = devPool
                     /\ trace[i].cmd.op = "providers create-oidc" =>
                          trace[i].cmd.d = <<"true">>
      /\ \A x \in account.providers :
           x[3] # <<"github-actions-provider">> =>
             /\ x[3] = <<"local-developer-provider">>
             /\ x[2][Len(x[2]) - 1] = "dev"

\* C18 witness: a run that created the four pools and the five providers has
\* returned.
C18_Witness ==
  /\ pc = "returned" /\ result.ok
  /\ Cardinality({ i \in DOMAIN trace : trace[i].cmd.op = "pools create" }) = 4
  /\ Cardinality({ i \in DOMAIN trace : trace[i].cmd.op = "providers create-oidc" }) = 5

\* r is the first entry of the regions string s that is not empty once trimmed.
IsFirstRegion(r, s) ==
  LET parts == Split(s, ",")
  IN  /\ r # <<>>
      /\ \E k \in DOMAIN parts :
           /\ Trim(parts[k]) = r
           /\ \A j \in 1..(k - 1) : Trim(parts[j]) = <<>>

\* C19: whenever a run issues the bucket-create command, its location is the
\* first region of the regions string (split on commas, trimmed, empty entries
\* dropped), and the region field of a returned result is that same region.
C19_BucketInFirstRegion ==
  /\ \A i \in DOMAIN trace :
       trace[i].cmd.op = "buckets create" => IsFirstRegion(trace[i].cmd.c, req.regions)
  /\ (pc = "returned" /\ result.ok) => IsFirstRegion(result.region, req.regions)

\* C20: a successful run returns a workloadIdentityProviders map with exactly
\* the keys dev, test, sbx and prod, where the value for env is projects/
\* {projectId}/locations/global/workloadIdentityPools/{prefix}-{env}-pool/
\* providers/github-actions-provider, {projectId} being the result's projectId.
C20_ProviderMap ==
  (pc = "returned" /\ result.ok) =>
    /\ DOMAIN result.workloadIdentityProviders = {"dev", "test", "sbx", "prod"}
    /\ \A env \in {"dev", "test", "sbx", "prod"} :
         result.workloadIdentityProviders[env] =
           <<"projects/">> \o result.projectId
             \o <<"/locations/global/workloadIdentityPools/">>
             \o Str(req.projectName) \o <<"-", env, "-pool">>
             \o <<"/providers/", "github-actions-provider">>

\* C20 witness: a run that went on with a listed project, whose id is not the
\* timestamped candidate, has returned its map.
C20_Witness ==
  /\ pc = "returned" /\ result.ok
  /\ result.projectId = <<"p", "-fdn">>
  /\ result.workloadIdentityProviders["sbx"] =
       << "projects/", "p", "-fdn", "/locations/global/workloadIdentityPools/",
          "p", "-", "sbx", "-pool", "/providers/", "github-actions-provider" >>

\* The commands of the run that bind the workload-identity-user role.
Grants ==
  { i \in DOMAIN trace : trace[i].cmd.op = "service-accounts add-iam-policy-binding" }

\* The grants of a run in the order of the loop: the environment of the pool,
\* and whether the member is the developer-identity principal set.
ExpectedGrants ==
  << [env |-> "dev",  developer |-> FALSE], [env |-> "dev", developer |-> TRUE],
     [env |-> "test", developer |-> FALSE], [env |-> "sbx", developer |-> FALSE],
     [env |-> "prod", developer |-> FALSE] >>

\* Entry t records that the provider named id of the pool of env is there:
\* a probe that found it, or a creation that succeeded.
ProviderDone(t, env, id) ==
  /\ t.cmd.b = Str(req.projectName) \o <<"-", env, "-pool">>
  /\ t.cmd.c = id
  /\ \/ t.cmd.op = "providers describe" /\ t.verdict = "present"
     \/ t.cmd.op = "providers create-oidc" /\ t.verdict = "ok"

\* C21: the grants of a run are issued without a probe, one after the other
\* and each only after the one before it succeeded, in the order dev (CI
\* principal set), dev (developer-identity principal set), test, sbx, prod,
\* all to the service account of the run; the first one directly follows the
\* step that settled the CI provider of the prod pool, after the CI provider of
\* all four pools and the developer provider of dev were settled; a run that
\* is past the grant stage has issued exactly these five.
C21_GrantsUnconditional ==
  /\ \A i \in Grants :
       LET first == CHOOSE k \in Grants : \A j \in Grants : k <= j
           n == i - first + 1
       IN  /\ n <= Len(ExpectedGrants)
           /\ \A j \in first..i : j \in Grants
           /\ trace[i].class = "run"
           /\ trace[i].cmd.a = serviceAccountEmail
           /\ trace[i].cmd.c = Str(req.projectName) \o <<"-", ExpectedGrants[n].env, "-pool">>
           /\ IF ExpectedGrants[n].developer
              THEN trace[i].cmd.d = <<"attribute.email/">> \o Str(req.developerIdentity)
              ELSE /\ Head(trace[i].cmd.d) \in {"attribute.repository/",
                                                "attribute.repository_owner/"}
                   /\ Tail(trace[i].cmd.d) = req.githubIdentity
           /\ i > first => trace[i - 1].verdict = "ok"
           /\ i = first =>
                /\ first > 1
                /\ ProviderDone(trace[first - 1], "prod", <<"github-actions-provider">>)
                /\ \A e \in {"dev", "test", "sbx"} :
                     \E j \in 1..(first - 1) :
                       ProviderDone(trace[j], e, <<"github-actions-provider">>)
                /\ \E j \in 1..(first - 1) :
                     ProviderDone(trace[j], "dev", <<"local-developer-provider">>)
  /\ (pc = "grant" /\ idx = 1 /\ inflight = 0) => Grants = {}
  /\ (pc \in {"bucketProbe", "bucketCreate", "return"} \/ (pc = "returned" /\ result.ok)) =>
       Cardinality(Grants) = Len(ExpectedGrants)

\* C21 witness: a run that found the pools and the providers in place has
\* issued the five grants and returned.
C21_Witness ==
  /\ pc = "returned" /\ result.ok
  /\ Cardinality(Grants) = 5
  /\ \A i \in DOMAIN trace : trace[i].cmd.op \notin {"pools create", "providers create-oidc"}

\* Entry t is one of the commands that are applied without a probe before the
\* pool stage: a service-enable or a project, organization or billing-account
\* role binding.
IsApply(t) ==
  t.cmd.op \in { "services enable", "projects add-iam-policy-binding",
                 "organizations add-iam-policy-binding",
                 "billing accounts add-iam-policy-binding" }

\* The apply commands of a run in source order: the command and the API or
\* role it names.
ExpectedApplies ==
  [i \in 1..Len(apis) |-> [op |-> "services enable", item |-> <<apis[i]>>]]
  \o [i \in 1..Len(projectRoles) |->
        [op |-> "projects add-iam-policy-binding", item |-> <<projectRoles[i]>>]]
  \o [i \in 1..Len(orgRoles) |->
        [op |-> "organizations add-iam-policy-binding", item |-> <<orgRoles[i]>>]]
  \o << [op |-> "billing accounts add-iam-policy-binding",
         item |-> <<"roles/billing.user">>] >>

\* What an apply command is applied to: the project, the organization or the
\* billing account of the run.
TargetOf(op) ==
  CASE op = "organizations add-iam-policy-binding"    -> Str(req.orgId)
    [] op = "billing accounts add-iam-policy-binding" -> Str(req.billingAccount)
    [] OTHER                                          -> projectId

\* The API or role an apply command names.
ItemOf(t) == IF t.cmd.op = "services enable" THEN t.cmd.b ELSE t.cmd.c

\* C22: the lists hold six APIs, two project roles and nineteen organization
\* roles, none twice; the apply commands a run has issued are the first ones
\* of the fixed list (the six enables, the two project bindings, the nineteen
\* organization bindings, the billing-account binding), each once, in that
\* order and each only after the one before it succeeded; the first enable
\* directly follows the project-number lookup and the first project binding
\* the service-account step, whatever the probes of the run reported; a run
\* that has reached the pool stage has issued all twenty-eight.
C22_UnconditionalApplies ==
  LET applies == SelectSeq(trace, IsApply)
  IN  /\ Len(apis) = 6 /\ Len(projectRoles) = 2 /\ Len(orgRoles) = 19
      /\ Cardinality({ ExpectedApplies[k] : k \in DOMAIN ExpectedApplies }) = 28
      /\ Len(applies) <= Len(ExpectedApplies)
      /\ \A k \in DOMAIN applies :
           /\ applies[k].class = "run"
           /\ applies[k].cmd.op = ExpectedApplies[k].op
           /\ applies[k].cmd.a = TargetOf(applies[k].cmd.op)
           /\ ItemOf(applies[k]) = ExpectedApplies[k].item
           /\ applies[k].cmd.op # "services enable" => applies[k].cmd.b = serviceAccountEmail
           /\ k > 1 => applies[k - 1].verdict = "ok"
      /\ \A i \in DOMAIN trace :
           /\ (IsApply(trace[i]) /\ ~IsApply(trace[i - 1])) =>
                \/ /\ trace[i].cmd.op = "services enable"
                   /\ trace[i - 1].cmd.op = "projects describe"
                   /\ trace[i - 1].verdict = "ok"
                \/ /\ trace[i].cmd.op = "projects add-iam-policy-binding"
                   /\ \/ /\ trace[i - 1].cmd.op = "service-accounts list"
                         /\ trace[i - 1].verdict = "present"
                      \/ /\ trace[i - 1].cmd.op = "service-accounts create"
                         /\ trace[i - 1].verdict = "ok"
      /\ (\E i \in DOMAIN trace : trace[i].cmd.op = "pools describe")
           => Len(applies) = Len(ExpectedApplies)
      /\ (pc = "returned" /\ result.ok) => Len(applies) = Len(ExpectedApplies)

\* C22 witness: a run that found its project, its billing link and its service
\* account in place has issued the twenty-eight apply commands and returned.
C22_Witness ==
  /\ pc = "returned" /\ result.ok
  /\ Len(SelectSeq(trace, IsApply)) = 28
  /\ \A i \in DOMAIN trace :
       trace[i].cmd.op \notin {"projects create", "billing projects link",
                               "service-accounts create"}

\* The project-number lookups of the run.
Describes == { i \in DOMAIN trace : trace[i].cmd.op = "projects describe" }

\* C23: a run issues the project-describe command once, for the project id it
\* goes on with (created or reused), directly after the billing step; when the
\* command fails or prints nothing the run is aborted with no enable command
\* issued; when it succeeds projectNumber is its trimmed, non-empty output (the
\* number of that project), every command of a later stage follows the lookup
\* (its predecessor is the lookup or a command of a later stage), every
\* provider audience and every principal-set path of the run holds that value,
\* and so does the projectNumber field of the result.
C23_ProjectNumberResolved ==
  /\ Cardinality(Describes) <= 1
  /\ \A i \in Describes :
       /\ trace[i].class = "run"
       /\ trace[i].cmd.a = projectId
       /\ i > 1
       /\ \/ trace[i - 1].cmd.op = "billing projects describe"
             /\ trace[i - 1].verdict = "present"
          \/ trace[i - 1].cmd.op = "billing projects link" /\ trace[i - 1].verdict = "ok"
       /\ i < Len(trace) => trace[i].verdict = "ok"
  /\ (pc \in StepPcs /\ trace # <<>> /\ Stage(Last.cmd.op) = 2
        /\ Last.verdict \in {"present", "ok"}) => pc = "describe"
  /\ (trace # <<>> /\ Last.cmd.op = "projects describe") =>
       IF lastExec.err \/ Trim(lastExec.stdout) = <<>>
       THEN /\ pc = "exited" /\ exitCode = 1
            /\ Last.verdict = "fail"
            /\ \A i \in DOMAIN trace : trace[i].cmd.op # "services enable"
       ELSE /\ pc = "enable"
            /\ projectNumber = Trim(lastExec.stdout)
  /\ \A i \in DOMAIN trace :
       Stage(trace[i].cmd.op) >= 4 =>
         /\ i > 1
         /\ Stage(trace[i - 1].cmd.op) >= 3
         /\ projectNumber # <<>>
         /\ projectNumber = ProjectNumberOf(projectId)
         /\ trace[i].cmd.op \in {"providers create-oidc",
                                 "service-accounts add-iam-policy-binding"} =>
              trace[i].cmd.e = projectNumber
  /\ (pc = "returned" /\ result.ok) =>
       /\ Cardinality(Describes) = 1
       /\ result.projectNumber = projectNumber
       /\ result.projectNumber = ProjectNumberOf(result.projectId)

\* C23 witness: a run that reused a project has looked up its number, created
\* a provider, granted impersonation and returned.
C23_Witness ==
  /\ pc = "returned" /\ result.ok
  /\ projectId \notin created
  /\ \A i \in DOMAIN trace : trace[i].cmd.op # "projects create"
  /\ \E i \in DOMAIN trace : trace[i].cmd.op = "providers create-oidc"
  /\ result.projectNumber = <<"#", "p", "-fdn">>

\* C23 witness of the fatal case: the lookup printed nothing and the run of a
\* project it had just created was aborted.
C23_WitnessFatal ==
  /\ pc = "exited" /\ trace # <<>>
  /\ Last.cmd.op = "projects describe" /\ ~lastExec.err
  /\ \E i \in DOMAIN trace : trace[i].cmd.op = "projects create"

\* The command-line entry point has printed the result: the .then callback of
\* runFoundationProject(...) ran.
Printed == entry = "cli" /\ pc = "returned"

\* The validation of the command-line entry point rejects the arguments given.
CliRejects == ~InputSchemaOk([f \in Fields |-> getEnvOrArg(args[f])])

\* C24: for a run from the command-line entry point: when the validation
\* rejects the arguments the process has exited with status 1 and has issued no
\* command; when a command issued through run() fails (non-zero exit, or
\* nothing printed) the process has exited with status 1; the result is
\* printed only when no command of the run failed and the run has gone through
\* the last stage, and then the status is 0; a process that exited with a
\* non-zero status has printed nothing.
C24_CliExitStatus ==
  entry = "cli" =>
    /\ CliRejects =>
         /\ pc = "exited" /\ exitCode = 1
         /\ lastError.note = "validation"
         /\ trace = <<>>
    /\ (trace # <<>> /\ Last.class = "run" /\ RunFails(lastExec)) =>
         /\ pc = "exited" /\ exitCode = 1
         /\ lastError.cmd = Last.cmd
    /\ \A i \in DOMAIN trace :
         trace[i].verdict = "fail" => (i = Len(trace) /\ pc = "exited" /\ exitCode = 1)
    /\ pc = "exited" => (exitCode = 1 /\ ~result.ok /\ ~Printed)
    /\ Printed =>
         /\ result.ok /\ exitCode = 0
         /\ ~CliRejects
         /\ \A i \in DOMAIN trace : trace[i].verdict # "fail"
         /\ trace # <<>> /\ Stage(Last.cmd.op) = 10
         /\ result = Result

\* C24 witness: a second command-line run was aborted by a failing command
\* after a first one had printed its result.
C24_Witness ==
  /\ entry = "cli" /\ pc = "exited" /\ exitCode = 1
  /\ trace # <<>> /\ Last.verdict = "fail" /\ lastExec.err
  /\ prev.ended = "success"

\* C24 witness of the validation case: the arguments were rejected.
C24_WitnessInvalid ==
  /\ entry = "cli" /\ CliRejects /\ pc = "exited" /\ exitCode = 1

\* The billing probe has just settled.
BillingProbed == trace # <<>> /\ Last.cmd.op = "billing projects describe"

\* The billing-link command is issued exactly when the billing probe failed or
\* the name it printed does not end with the requested billingAccount id, and
\* then directly after the probe; a probe that printed billingAccounts/<id> for
\* the requested id is followed by no link command.
C28_LinkIffProbeAbsent ==
  /\ BillingProbed =>
       LET out == Trim(lastExec.stdout)
           id == Str(req.billingAccount)
           ends == /\ Len(out) >= Len(id)
                   /\ \A k \in 1..Len(id) : out[Len(out) - Len(id) + k] = id[k]
       IN  /\ pc \in {"link", "describe"}
           /\ pc = "link" <=> (lastExec.err \/ ~ends)
           /\ Last.verdict = (IF pc = "link" THEN "absent" ELSE "present")
           /\ (~lastExec.err /\ out = <<"billingAccounts/">> \o id) => pc = "describe"
  /\ \A i \in DOMAIN trace :
       /\ trace[i].cmd.op = "billing projects link" =>
            /\ i > 1
            /\ trace[i - 1].cmd.op = "billing projects describe"
            /\ trace[i - 1].verdict = "absent"
            /\ trace[i].cmd.a = projectId
            /\ trace[i].cmd.b = Str(req.billingAccount)
       /\ (trace[i].cmd.op = "billing projects describe" /\ i < Len(trace)) =>
            (trace[i].verdict = "absent" <=> trace[i + 1].cmd.op = "billing projects link")

\* C28: the billing-link command is issued if and only if the billing probe
\* fails or the account name it returns does not end with the requested
\* billingAccount id; in particular a project with no linked billing account
\* (empty probe output) is always linked, and a project the probe reports as
\* linked to exactly the requested account is not linked again.
C28_BillingLinkDecision ==
  /\ C28_LinkIffProbeAbsent
  /\ (BillingProbed /\ ~lastExec.err /\ Trim(lastExec.stdout) = <<>>) => pc = "link"

\* The part of C28 about an unlinked project holds for every request whose
\* billingAccount is not the empty string.
C28_UnlinkedIsLinkedUnlessEmptyId ==
  (BillingProbed /\ ~lastExec.err /\ Trim(lastExec.stdout) = <<>>
     /\ req.billingAccount # <<>>) => pc = "link"

\* The case that refutes C28: the handler was given billingAccount '', the
\* probe printed nothing (no billing account linked), and the run goes on to
\* the project-number lookup without linking.
C28_EmptyIdSkipsLink ==
  /\ entry = "handler" /\ req.billingAccount = <<>>
  /\ BillingProbed /\ ~lastExec.err /\ Trim(lastExec.stdout) = <<>>
  /\ \A l \in account.billing : l[1] # projectId
  /\ pc = "describe"

\* The environment whose pool entry t names: 1..4 in the order dev, test, sbx,
\* prod, and 0 for any other pool id.
EnvIndexOf(t) ==
  IF \E k \in 1..4 :
       t.cmd.b = Str(req.projectName) \o <<"-", <<"dev", "test", "sbx", "prod">>[k], "-pool">>
  THEN CHOOSE k \in 1..4 :
         t.cmd.b = Str(req.projectName) \o <<"-", <<"dev", "test", "sbx", "prod">>[k], "-pool">>
  ELSE 0

\* Entry t records that the pool of entry u is there: created successfully or
\* found by its probe.
PoolDone(t, u) ==
  /\ t.cmd.a = u.cmd.a /\ t.cmd.b = u.cmd.b
  /\ \/ t.cmd.op = "pools describe" /\ t.verdict = "present"
     \/ t.cmd.op = "pools create" /\ t.verdict = "ok"

\* Entry t settles the last provider of its environment: the developer
\* provider for dev, the CI provider for the others.
LastProviderDone(t) ==
  /\ t.cmd.op \in {"providers describe", "providers create-oidc"}
  /\ t.verdict \in {"present", "ok"}
  /\ t.cmd.c = (IF EnvIndexOf(t) = 1 THEN <<"local-developer-provider">>
                                     ELSE <<"github-actions-provider">>)

\* C29: every provider-create command of a run names a pool that an earlier
\* command of the same run created successfully or found present, and carries
\* the non-empty project number the run resolved; the steps of the pool stage
\* follow one another as in the loop: the pool probe of dev after the billing
\* role binding, the pool probe of each later environment after the last
\* provider step of the one before (dev, test, sbx, prod), the pool creation
\* after a probe that found no pool, the CI provider probe after the pool is
\* there, a provider creation after the probe that found none, and the
\* developer provider probe (dev only) after the CI provider of dev is there.
C29_PoolBeforeProvider ==
  \A i \in DOMAIN trace :
    LET t == trace[i]
        p == trace[i - 1]
    IN  Stage(t.cmd.op) = 8 =>
          /\ i > 1
          /\ EnvIndexOf(t) \in 1..4
          /\ t.cmd.a = projectId
          /\ t.cmd.op = "pools describe" =>
               IF EnvIndexOf(t) = 1
               THEN p.cmd.op = "billing accounts add-iam-policy-binding" /\ p.verdict = "ok"
               ELSE LastProviderDone(p) /\ EnvIndexOf(p) = EnvIndexOf(t) - 1
          /\ t.cmd.op = "pools create" =>
               /\ p.cmd.op = "pools describe" /\ p.verdict = "absent"
               /\ p.cmd.b = t.cmd.b
          /\ (t.cmd.op = "providers describe" /\ t.cmd.c = <<"github-actions-provider">>) =>
               PoolDone(p, t)
          /\ (t.cmd.op = "providers describe" /\ t.cmd.c # <<"github-actions-provider">>) =>
               /\ t.cmd.c = <<"local-developer-provider">>
               /\ EnvIndexOf(t) = 1
               /\ ProviderDone(p, "dev", <<"github-actions-provider">>)
          /\ t.cmd.op = "providers create-oidc" =>
               /\ p.cmd.op = "providers describe" /\ p.verdict = "absent"
               /\ p.cmd.b = t.cmd.b /\ p.cmd.c = t.cmd.c
               /\ \E j \in 1..(i - 1) : PoolDone(trace[j], t)
               /\ t.cmd.e # <<>> /\ t.cmd.e = projectNumber
               /\ \E j \in 1..(i - 1) :
                    trace[j].cmd.op = "projects describe" /\ trace[j].verdict = "ok"

\* C29 witness: the developer provider of dev has just been created, in a pool
\* this run created, after the CI provider of dev was created.
C29_Witness ==
  /\ trace # <<>>
  /\ Last.cmd.op = "providers create-oidc" /\ Last.verdict = "ok"
  /\ Last.cmd.c = <<"local-developer-provider">>
  /\ \E j \in DOMAIN trace : trace[j].cmd.op = "pools create" /\ trace[j].cmd.b = Last.cmd.b
  /\ \E j \in DOMAIN trace :
       /\ trace[j].cmd.op = "providers create-oidc"
       /\ trace[j].cmd.c = <<"github-actions-provider">>

\* String.prototype.includes for a needle of several tokens.
Contains(s, sub) ==
  \E k \in 1..(Len(s) - Len(sub) + 1) : \A j \in 1..Len(sub) : s[k + j - 1] = sub[j]

\* The timestamped id the run generated before it listed the projects.
Candidate == Str(req.projectName) \o <<"-fdn", "-", ToString(timestamp)>>

\* The service-account email and the bucket name of project pid.
EmailOf(pid) ==
  Str(req.projectName) \o <<"-sa", "@">> \o pid \o <<".iam.gserviceaccount.com">>

BucketOf(pid) == pid \o <<"-terraform-state">>

\* Command c is aimed at the project pid whose service account is email and
\* whose bucket is bucket.
RefersTo(c, pid, email, bucket) ==
  CASE c.op \in {"billing projects describe", "billing projects link",
                 "projects describe", "services enable", "service-accounts list",
                 "service-accounts create", "pools describe", "pools create",
                 "providers describe", "providers create-oidc"} -> c.a = pid
    [] c.op = "projects add-iam-policy-binding" -> c.a = pid /\ c.b = email
    [] c.op \in {"organizations add-iam-policy-binding",
                 "billing accounts add-iam-policy-binding"} -> c.b = email
    [] c.op = "service-accounts add-iam-policy-binding" -> c.a = email /\ c.b = pid
    [] c.op = "buckets describe" -> c.a = bucket
    [] c.op = "buckets create" -> c.a = bucket /\ c.b = pid
    [] OTHER -> FALSE

\* The run has reused a listed project whose id is not the candidate's.
Reused ==
  /\ trace # <<>> /\ trace[1].cmd.op = "projects list" /\ trace[1].verdict = "present"
  /\ projectId # Candidate

\* C30: every command a run issues after the project step is aimed at the
\* project id the run resolved (the listed one on reuse, the created one
\* otherwise), and the result carries that id, its service account and its
\* bucket; when a listed project with another id is reused, the timestamped
\* candidate id occurs in no command of the run (in every state, not in the
\* command issued last), not in the service-account email and not in the
\* bucket name.
C30_SingleTargetProject ==
  LET email == EmailOf(projectId)
      bucket == BucketOf(projectId)
      cand == Candidate
  IN  /\ \A i \in DOMAIN trace :
           /\ Stage(trace[i].cmd.op) >= 2 =>
                RefersTo(trace[i].cmd, projectId, email, bucket)
           /\ trace[i].cmd.op = "projects create" =>
                /\ trace[i].cmd.a = cand
                /\ i = 2 /\ trace[1].verdict = "absent"
                /\ i < Len(trace) => projectId = cand
      /\ Reused =>
           /\ \A f \in {"a", "b", "c", "d", "e"} : ~Contains(Last.cmd[f], cand)
           /\ projectId \in Matching(account.projects)
           /\ ~Contains(serviceAccountEmail, cand)
           /\ ~Contains(bucketName, cand)
      /\ (pc = "returned" /\ result.ok) =>
           /\ result.projectId = projectId
           /\ result.serviceAccount = email
           /\ result.terraformStateBucket = bucket

\* C30 witness: a run that reused a listed project has created its service
\* account and its bucket and has returned; the clock had moved on, so the
\* candidate id differs from the id of every project.
C30_Witness ==
  /\ pc = "returned" /\ result.ok /\ Reused
  /\ Candidate \notin account.projects
  /\ \E i \in DOMAIN trace : trace[i].cmd.op = "service-accounts create"
  /\ \E i \in DOMAIN trace : trace[i].cmd.op = "buckets create"
\* The commands of the given kind among those of the tool call being served.
SetupCmds(op) == { i \in DOMAIN gtrace : gtrace[i].cmd.op = op }

\* createGitHubRepo has been invoked in the tool call being served.
RepoInvoked == SetupCmds("gh --version") # {}

\* The repository was among the owner's repositories when createGitHubRepo was
\* invoked: it is there and this invocation did not create it.
ListedAtCall ==
  /\ fullRepoName \in host.repos
  /\ \A i \in SetupCmds("gh repo create") : ~gtrace[i].ok

\* createGitHubRepo has obtained the owner's listing.
ListingObtained == \E i \in SetupCmds("gh repo list") : gtrace[i].ok

\* A 'gh repo create' comes right after the listing, which comes right after
\* a gh-authenticated check that passed and a gh-installed check that passed.
CreateAfterChecks ==
  \A i \in SetupCmds("gh repo create") :
    /\ i > 3
    /\ gtrace[i - 1].cmd.op = "gh repo list"
    /\ gtrace[i - 2].cmd.op = "gh auth status" /\ gtrace[i - 2].ok
    /\ gtrace[i - 3].cmd.op = "gh --version" /\ gtrace[i - 3].ok

C26_WitnessCreate ==
  /\ repoResult.status = "success"
  /\ \E i \in SetupCmds("gh repo create") : gtrace[i].ok

\* createGitHubRepo has issued a create for a listed repository, the listing
\* having failed.
C26_WitnessListingFailed ==
  /\ fullRepoName \in host.repos
  /\ \E i \in SetupCmds("gh repo create") : ~gtrace[i].ok /\ ~gtrace[i - 1].ok

\* A command of setupGitHubSecrets that sets an item of one environment.
IsEnvItem(t) == t.cmd.op \in {"gh variable set", "gh secret set"} /\ t.cmd.c # <<>>

\* The per-environment commands of the tool call being served, in the order
\* they were issued.
EnvItems == SelectSeq(gtrace, IsEnvItem)

\* What is to be attempted for one environment: the variable with the name of
\* the environment and, a provider path being present, the secret with it.
EnvCmdsOf(env) ==
  << GCmd("gh variable set", <<"GCP_TOOLS_ENVIRONMENT">>, secretsRepoName, <<env>>, <<env>>) >>
  \o (IF env \in DOMAIN secretsInput.workloadIdentityProviders
         /\ secretsInput.workloadIdentityProviders[env] \notin {<<>>, Missing}
      THEN << GCmd("gh secret set", <<"GCP_TOOLS_WORKLOAD_IDENTITY_PROVIDER">>,
                   secretsRepoName, <<env>>, secretsInput.workloadIdentityProviders[env]) >>
      ELSE <<>>)

ExpectedEnvCmds ==
  EnvCmdsOf("dev") \o EnvCmdsOf("test") \o EnvCmdsOf("sbx") \o EnvCmdsOf("prod")

\* setupGitHubSecrets has passed its authentication check and is done with the
\* loop over environments.
SecretsPastEnvs ==
  /\ tool # "none"
  /\ \/ spc \in {"secretsGlobal", "secretsVars", "secretsRegions"}
     \/ secretsResult.status = "success"

\* C27: the per-environment commands setupGitHubSecrets has issued are, in
\* this order, those for dev, test, sbx and prod: the variable
\* GCP_TOOLS_ENVIRONMENT with the environment's name and, a provider path for
\* the environment being present, the secret
\* GCP_TOOLS_WORKLOAD_IDENTITY_PROVIDER with that path. Once the authentication
\* check has passed and the loop is done, every one of them has been
\* attempted, whichever of them failed.
C27_PerEnvironmentSecrets ==
  /\ Len(EnvItems) <= Len(ExpectedEnvCmds)
  /\ \A i \in DOMAIN EnvItems : EnvItems[i].cmd = ExpectedEnvCmds[i]
  /\ SecretsPastEnvs => Len(EnvItems) = Len(ExpectedEnvCmds)
  /\ spc \in {"secretsEnvVar", "secretsEnvSecret"} =>
       /\ sidx \in DOMAIN environments
       /\ Len(EnvItems) < Len(ExpectedEnvCmds)

\* setupGitHubSecrets has returned after an attempt for one environment failed
\* and a later one succeeded, a provider secret among the attempts and an
\* environment without a provider path among the environments.
C27_Witness ==
  /\ secretsResult.status = "success"
  /\ Len(EnvItems) = Len(ExpectedEnvCmds)
  /\ \E i, j \in DOMAIN EnvItems : i < j /\ ~EnvItems[i].ok /\ EnvItems[j].ok
  /\ \E i \in DOMAIN EnvItems : EnvItems[i].cmd.op = "gh secret set"
  /\ Len(EnvItems) < 8

\* The documented place of a step of complete_project_setup: 1 prerequisites
\* install, 2 GitHub and 3 gcloud authentication check, 4 repository creation,
\* 5 foundation project setup, 6 GitHub environment creation, 7 secrets
\* configuration, 8 skeleton app.
DocumentedStep(at) ==
  CASE at \in {"prereqCheck", "prereqInstall"} -> 1
    [] at = "ghAuth" -> 2
    [] at = "gcloudAuth" -> 3
    [] at \in {"repoGhVersion", "repoAuth", "repoList", "repoCreate"} -> 4
    [] at = "foundation" -> 5
    [] at \in {"envList", "envPut"} -> 6
    [] at \in {"secretsAuth", "secretsEnvVar", "secretsEnvSecret", "secretsGlobal",
               "secretsVars", "secretsRegions"} -> 7
    [] at = "skeleton" -> 8
    [] OTHER -> 0

\* The entries of the log of the tool call that a step of the given number made.
StepEntries(n) == { i \in DOMAIN gtrace : DocumentedStep(gtrace[i].at) = n }

\* Before entry i of the log every prerequisite was found or installed.
PrerequisitesInstalledBefore(i) ==
  \A p \in {"terraform", "cdktf-cli", "gcloud", "gh"} :
    \E k \in 1..(i - 1) :
      /\ DocumentedStep(gtrace[k].at) = 1
      /\ gtrace[k].cmd.a = <<p>>
      /\ gtrace[k].ok

\* Before entry i of the log both authentication checks passed.
AuthenticatedBefore(i) ==
  /\ \E k \in 1..(i - 1) : gtrace[k].at = "ghAuth" /\ gtrace[k].ok
  /\ \E k \in 1..(i - 1) : gtrace[k].at = "gcloudAuth" /\ gtrace[k].ok

\* All four environments were created or existed already.
AllEnvironmentsThere ==
  /\ envResult.status = "success"
  /\ Len(envResult.results) = 4
  /\ \A e \in {"dev", "test", "sbx", "prod"} :
       \E k \in DOMAIN envResult.results :
         /\ envResult.results[k].env = e
         /\ envResult.results[k].status \in {"created", "exists"}

\* C25: complete_project_setup runs its steps in the documented order:
\* prerequisites install, GitHub and gcloud authentication checks, repository
\* creation, foundation project setup, GitHub environment creation, secrets
\* configuration, skeleton app. The foundation handler is invoked only after
\* every prerequisite was found or installed, both authentication checks passed
\* and repository creation did not fail; setupGitHubSecrets is invoked only
\* after the foundation step did not fail and all four environments were
\* created or existed already; a step is reported successful or failed only
\* when the steps before it are reported successful.
C25_SetupOrderAndGates ==
  tool = "complete_project_setup" =>
    /\ \A i \in 2..Len(gtrace) :
         DocumentedStep(gtrace[i - 1].at) <= DocumentedStep(gtrace[i].at)
    /\ \A i \in DOMAIN gtrace : DocumentedStep(gtrace[i].at) \in 1..8
    /\ Cardinality(StepEntries(5)) <= 1
    /\ \A i \in StepEntries(5) :
         /\ PrerequisitesInstalledBefore(i)
         /\ \A k \in DOMAIN summary : summary[k].installed
         /\ AuthenticatedBefore(i)
         /\ StepEntries(4) # {}
         /\ repoResult.status = "success"
         /\ setupResult.step1 = "success" /\ setupResult.step2 = "success"
    /\ \A i \in StepEntries(6) : StepEntries(5) # {} /\ handlerStatus = "success"
    /\ \A i \in StepEntries(7) :
         /\ StepEntries(5) # {}
         /\ handlerStatus # "failed"
         /\ setupResult.step3 = "success"
         /\ StepEntries(6) # {}
         /\ AllEnvironmentsThere
    /\ \A i \in StepEntries(8) :
         StepEntries(7) # {} /\ secretsResult.status = "success"
    /\ setupResult.step5 # "pending" =>
         /\ secretsResult.status = "success"
         /\ setupResult.step4 = "success"
    /\ setupResult.step4 # "pending" => setupResult.step3 = "success"
    /\ setupResult.step3 # "pending" => setupResult.step2 = "success"
    /\ setupResult.step2 # "pending" => setupResult.step1 = "success"

\* complete_project_setup has run every step, down to a skeleton app.
C25_Witness ==
  /\ tool = "complete_project_setup"
  /\ setupResult.status = "success"
  /\ setupResult.step5 = "success"
  /\ \A n \in 1..8 : StepEntries(n) # {}

\* complete_project_setup has ended at a failed foundation step, with no
\* environment created and no secret set.
C25_WitnessFoundationFailed ==
  /\ tool = "complete_project_setup"
  /\ setupResult.status = "failed"
  /\ setupResult.step3 = "failed"
  /\ StepEntries(5) # {}

\* complete_project_setup has ended at an environment that could not be
\* created, with no secret set.
C25_WitnessEnvironmentFailed ==
  /\ tool = "complete_project_setup"
  /\ setupResult.status = "failed"
  /\ setupResult.step4 = "partial"
  /\ StepEntries(6) # {}

\* The commands that ask whether something is there.
ProbeCommandOps ==
  { "projects list", "billing projects describe", "service-accounts list",
    "pools describe", "providers describe", "buckets describe" }

\* The commands of the current run that have settled and are probes.
ProbesIssued == { i \in DOMAIN trace : trace[i].cmd.op \in ProbeCommandOps }

\* The part of C31 that holds in every state: the current run has issued at
\* most 13 probe commands and at most 47 other commands, 60 in total with the
\* one that is under way, and the command it issued last is none of those it
\* issued before.
C31_CommandBound ==
  /\ Cardinality(ProbesIssued) <= 13
  /\ Len(trace) - Cardinality(ProbesIssued) <= 47
  /\ Len(trace) + inflight <= 60
  /\ \A i \in 1..(Len(trace) - 1) : trace[i].cmd # trace[Len(trace)].cmd

\* C31: every external command terminating, every run of runFoundationProject
\* terminates (it returns or the process exits), having issued at most 13 probe
\* commands and at most 47 other commands, 60 in total, none of them twice.
C31_TerminationAndCommandBound ==
  /\ []C31_CommandBound
  /\ []<>(pc \in Finished)

\* A run has returned its result after 13 probes and 47 other commands.
C31_Witness ==
  /\ pc = "returned" /\ result.ok
  /\ Cardinality(ProbesIssued) = 13
  /\ Len(trace) = 60

\* C32: runFoundationProjectHandler and completeProjectSetup settle by
\* returning an object whose status is 'success' or 'failed', whatever the
\* outcome of the commands: a handler call that has ended has returned such a
\* status with the serving process alive, and a complete_project_setup call is
\* never left waiting for a process that has exited.
C32_HandlersNeverReject ==
  /\ (entry = "handler" /\ pc \in {"returned", "exited"}) =>
       /\ pc = "returned"
       /\ serverAlive
       /\ handlerStatus \in {"success", "failed"}
  /\ (tool = "complete_project_setup" /\ spc = "done") =>
       setupResult.status \in {"success", "failed"}
  /\ (tool = "complete_project_setup" /\ spc # "done") => serverAlive

\* The part of C32 that holds: whenever one of the two handlers does return,
\* the status it returns is 'success' or 'failed'.
C32_ReturnedStatusDomain ==
  /\ (entry = "handler" /\ pc = "returned") => handlerStatus \in {"success", "failed"}
  /\ (tool = "complete_project_setup" /\ spc = "done") =>
       setupResult.status \in {"success", "failed"}

\* completeProjectSetup waits for a foundation handler whose process has
\* exited: neither of the two returns.
C32_ExitedInsideSetup ==
  /\ tool = "complete_project_setup"
  /\ spc = "foundationWait"
  /\ entry = "handler" /\ pc = "exited"
  /\ ~serverAlive
  /\ setupResult.status = "none"

\* The step statuses of the results record of completeProjectSetup.
StepStatuses ==
  << setupResult.step1, setupResult.step2, setupResult.step3, setupResult.step4,
     setupResult.step5 >>

\* C33: completeProjectSetup returns status 'success' only if each of step1 to
\* step5 of its results has status 'success'.
C33_SuccessMeansEveryStep ==
  (tool = "complete_project_setup" /\ spc = "done" /\ setupResult.status = "success") =>
    \A n \in 1..5 : StepStatuses[n] = "success"

\* The part of C33 that holds: overall success means that steps 1 to 4
\* succeeded and that step 5 carries the status createSkeletonApp returned.
C33_SuccessMeansFirstFourSteps ==
  (tool = "complete_project_setup" /\ spc = "done" /\ setupResult.status = "success") =>
    /\ \A n \in 1..4 : StepStatuses[n] = "success"
    /\ setupResult.step5 = skeletonResult
    /\ skeletonResult \in {"success", "failed"}

\* completeProjectSetup has returned 'success' with a failed skeleton-app step.
C33_SuccessWithFailedSkeleton ==
  /\ tool = "complete_project_setup" /\ spc = "done"
  /\ setupResult.status = "success"
  /\ setupResult.step5 = "failed"

\* The steps of the results record whose status is 'failed' or 'partial'.
FailedSteps == { n \in 1..5 : StepStatuses[n] \in {"failed", "partial"} }

\* The step of the results record that a documented step of the setup belongs
\* to: the prerequisites and the two authentication checks are step 1, the
\* environments and the secrets are step 4.
ResultStepOf(n) ==
  CASE n \in {1, 2, 3} -> 1
    [] n = 4 -> 2
    [] n = 5 -> 3
    [] n \in {6, 7} -> 4
    [] n = 8 -> 5
    [] OTHER -> 0

\* C34: whenever completeProjectSetup returns status 'failed', its results
\* record has exactly one step with status 'failed' or 'partial', every step
\* before it with status 'success' and every step after it 'pending', and
\* nothing of a step after the failing one has been started.
C34_StepShapeOnFailure ==
  (tool = "complete_project_setup" /\ spc = "done" /\ setupResult.status = "failed") =>
    /\ Cardinality(FailedSteps) = 1
    /\ \A f \in FailedSteps :
         /\ \A n \in 1..(f - 1) : StepStatuses[n] = "success"
         /\ \A n \in (f + 1)..5 : StepStatuses[n] = "pending"
         /\ \A i \in DOMAIN gtrace : ResultStepOf(DocumentedStep(gtrace[i].at)) <= f
         /\ f < 5 => skeletonResult = "none"
         /\ f < 4 => envResult = NoEnvResult /\ secretsResult = NoSecretsResult
         /\ f < 3 => StepEntries(5) = {}
         /\ f < 2 => repoResult = NoRepoResult

\* completeProjectSetup has returned 'failed' at the secrets step, the three
\* steps before it successful and the skeleton-app step pending.
C34_Witness ==
  /\ tool = "complete_project_setup" /\ spc = "done"
  /\ setupResult.status = "failed"
  /\ setupResult.step4 = "failed"
  /\ setupResult.step3 = "success"
  /\ setupResult.step5 = "pending"

\* The repositories that the environment commands of the tool call name.
EnvironmentRepos == { gtrace[i].cmd.a : i \in StepEntries(6) }

\* The repositories that the 'gh secret set' and 'gh variable set' commands of
\* the tool call name.
SecretsRepos ==
  { gtrace[i].cmd.b : i \in { k \in StepEntries(7) :
                                gtrace[k].cmd.op \in {"gh secret set", "gh variable set"} } }

\* C35: within one completeProjectSetup invocation every 'gh secret set' and
\* 'gh variable set' command of setupGitHubSecrets names the repository on
\* which createGitHubEnvironments created the environments.
C35_SameRepository ==
  tool = "complete_project_setup" =>
    \A s \in SecretsRepos : \A e \in EnvironmentRepos : s = e

\* The part of C35 that holds: the two repositories are the same when the
\* githubIdentity holds a '/' or the project id of the foundation step is the
\* projectName followed by -fdn- and a timestamp.
C35_SameRepositoryForStampedId ==
  (/\ tool = "complete_project_setup"
   /\ \/ Includes(setupArgs.githubIdentity, "/")
      \/ secretsInput.projectId \notin { Str(setupArgs.projectName) \o <<"-fdn">> }) =>
    \A s \in SecretsRepos : \A e \in EnvironmentRepos : s = e

\* The environments were created on my-org/p and a secret was sent to
\* my-org/p-fdn, the foundation step having reused the project p-fdn.
C35_SecretsOnOtherRepository ==
  /\ tool = "complete_project_setup"
  /\ result.projectId = <<"p", "-fdn">>
  /\ EnvironmentRepos = { <<"my-org", "/", "p">> }
  /\ <<"my-org", "/", "p", "-fdn">> \in SecretsRepos

\* The entries of the results of setupGitHubSecrets with status 'failed'.
FailedItems ==
  { i \in DOMAIN secretsResult.results : secretsResult.results[i].status = "failed" }

\* In the value setupGitHubSecrets returned, secretsCreated + variablesCreated
\* + the number of 'failed' entries is totalItems.
SummaryAddsUp ==
  secretsResult.summary.secretsCreated + secretsResult.summary.variablesCreated
    + Cardinality(FailedItems) = secretsResult.summary.totalItems

\* C36: setupGitHubSecrets returns status 'success' only if no entry of its
\* results has status 'failed', and in every returned value secretsCreated +
\* variablesCreated + the number of 'failed' entries equals totalItems.
C36_SecretsStatusReflectsItems ==
  /\ secretsResult.status = "success" => FailedItems = {}
  /\ secretsResult.status \in {"success", "failed"} => SummaryAddsUp

\* The part of C36 that holds: the counts add up in every returned value, and a
\* returned 'failed' carries no entry at all.
C36_SummaryAddsUp ==
  /\ secretsResult.status \in {"success", "failed"} =>
       /\ SummaryAddsUp
       /\ secretsResult.summary.totalItems = Len(secretsResult.results)
  /\ secretsResult.status = "failed" => secretsResult.results = <<>>

\* setupGitHubSecrets has returned 'success' with every entry 'failed'.
C36_SuccessWithEveryItemFailed ==
  /\ secretsResult.status = "success"
  /\ secretsResult.summary.totalItems > 0
  /\ Cardinality(FailedItems) = secretsResult.summary.totalItems

\* The repository variables that 'gh variable set' commands of the tool call
\* carry: the bodies sent under the given name.
VariableBodies(name) ==
  { gtrace[i].cmd.d : i \in { k \in DOMAIN gtrace :
                                /\ gtrace[k].cmd.op = "gh variable set"
                                /\ gtrace[k].cmd.c = <<>>
                                /\ gtrace[k].cmd.a = <<name>> } }

\* C37: the repository variables setupGitHubSecrets sets for a provisioning
\* request carry the values their names say:
\* GCP_TOOLS_DEVELOPER_IDENTITY_SPECIFIER the request's developerIdentity,
\* GCP_TOOLS_GITHUB_IDENTITY_SPECIFIER its githubIdentity,
\* GCP_TOOLS_OWNER_EMAILS its ownerEmails and GCP_TOOLS_REGIONS its regions.
C37_VariableValuesMatchNames ==
  tool = "complete_project_setup" =>
    /\ VariableBodies("GCP_TOOLS_DEVELOPER_IDENTITY_SPECIFIER")
         \subseteq {setupArgs.developerIdentity}
    /\ VariableBodies("GCP_TOOLS_GITHUB_IDENTITY_SPECIFIER")
         \subseteq {setupArgs.githubIdentity}
    /\ VariableBodies("GCP_TOOLS_OWNER_EMAILS") \subseteq {setupArgs.ownerEmails}
    /\ VariableBodies("GCP_TOOLS_REGIONS") \subseteq {setupArgs.regions}

\* The part of C37 that holds: the github identity, the owner emails and the
\* regions are carried by the variables of their names.
C37_OtherVariablesMatch ==
  tool = "complete_project_setup" =>
    /\ VariableBodies("GCP_TOOLS_GITHUB_IDENTITY_SPECIFIER")
         \subseteq {setupArgs.githubIdentity}
    /\ VariableBodies("GCP_TOOLS_OWNER_EMAILS") \subseteq {setupArgs.ownerEmails}
    /\ VariableBodies("GCP_TOOLS_REGIONS") \subseteq {setupArgs.regions}

\* The developer identity variable was set to the owner emails of a request
\* whose developer identity is another value.
C37_DeveloperIdentityIsOwnerEmails ==
  /\ tool = "complete_project_setup"
  /\ setupArgs.developerIdentity # setupArgs.ownerEmails
  /\ VariableBodies("GCP_TOOLS_DEVELOPER_IDENTITY_SPECIFIER") = {setupArgs.ownerEmails}
  /\ VariableBodies("GCP_TOOLS_OWNER_EMAILS") = {setupArgs.ownerEmails}

\* The listings createGitHubEnvironments has issued in the tool call.
EnvListings == { i \in DOMAIN gtrace : gtrace[i].cmd.op = "gh api environments" }

\* The creations createGitHubEnvironments has issued in the tool call.
EnvPuts == { i \in DOMAIN gtrace : gtrace[i].cmd.op = "gh api -X PUT" }

\* The environment that entry i of the log is about: the k-th listing, and
\* the creation that follows it, are about the k-th of dev, test, sbx, prod.
EnvOfEntry(i) ==
  << "dev", "test", "sbx", "prod" >>[Cardinality({ k \in EnvListings : k <= i })]

\* createGitHubEnvironments has returned.
EnvReturned == envResult.status \in {"success", "partial"}

\* C38: createGitHubEnvironments goes through dev, test, sbx and prod in this
\* order, whatever fails: it lists at most four times; a creation is issued
\* exactly when the listing before it succeeded and did not hold the
\* environment, and it is for that environment; each entry of the results is
\* 'exists', 'created' or 'failed' as the listing and the creation for its
\* environment went; the value returned has exactly four entries, and its
\* status is 'success' if every entry is 'created' or 'exists' and 'partial'
\* otherwise.
C38_EnvironmentsIndependent ==
  /\ Cardinality(EnvListings) <= 4
  /\ \A i \in EnvPuts :
       /\ i - 1 \in EnvListings
       /\ gtrace[i - 1].ok
       /\ gtrace[i].cmd.b = << EnvOfEntry(i) >>
       /\ gtrace[i].cmd.a = gtrace[i - 1].cmd.a
  /\ (gtrace # <<>> /\ Len(gtrace) \in EnvListings) =>
       ( spc = "envPut" <=>
           /\ gtrace[Len(gtrace)].ok
           /\ << gtrace[Len(gtrace)].cmd.a, EnvOfEntry(Len(gtrace)) >> \notin host.envs )
  /\ spc = "envPut" => (gtrace # <<>> /\ Len(gtrace) \in EnvListings)
  /\ Len(envResult.results) <= 4
  /\ \A k \in DOMAIN envResult.results :
       /\ envResult.results[k].env = << "dev", "test", "sbx", "prod" >>[k]
       /\ \E i \in EnvListings :
            /\ EnvOfEntry(i) = envResult.results[k].env
            /\ envResult.results[k].status =
                 IF ~gtrace[i].ok THEN "failed"
                 ELSE IF i + 1 \notin EnvPuts THEN "exists"
                 ELSE IF gtrace[i + 1].ok THEN "created" ELSE "failed"
  /\ EnvReturned =>
       /\ Len(envResult.results) = 4
       /\ Cardinality(EnvListings) = 4
       /\ envResult.status = "success" <=>
            \A k \in 1..4 : envResult.results[k].status \in {"created", "exists"}
  /\ envResult.status \in {"none", "success", "partial"}

\* createGitHubEnvironments has returned 'partial' with four entries: one
\* environment failed, a later one was created and one existed.
C38_Witness ==
  /\ EnvReturned
  /\ envResult.status = "partial"
  /\ \E k \in 1..3 :
       /\ envResult.results[k].status = "failed"
       /\ \E j \in (k + 1)..4 : envResult.results[j].status = "created"
  /\ \E k \in 1..4 : envResult.results[k].status = "exists"

\* createGitHubEnvironments has returned 'success'.
C38_WitnessSuccess ==
  /\ EnvReturned
  /\ envResult.status = "success"
  /\ \E k \in 1..4 : envResult.results[k].status = "created"

\* The call of pollGithubDeployment has returned.
PollReturned == ppc = "returned"

\* A ref was given to the call (a branch name: the empty string counts as none).
RefGiven == pollParams.ref # Missing /\ pollParams.ref # <<>>

\* The listing failed, or what it printed could not be parsed.
ListingFailed(o) == o.settled /\ (o.err \/ ~o.json)

\* The listing shows a latest run that is completed and, when a ref was
\* given, is on that branch.
ListingDecides(o) ==
  /\ o.settled /\ ~ListingFailed(o)
  /\ o.runs # <<>>
  /\ o.runs[1].status = "completed"
  /\ RefGiven => o.runs[1].headBranch = pollParams.ref

\* The listing shows a latest run on the branch asked for (on any, without ref).
ListingOfRef(o) ==
  /\ o.settled /\ ~ListingFailed(o)
  /\ o.runs # <<>>
  /\ RefGiven => o.runs[1].headBranch = pollParams.ref

\* What the call returns is what its listings call for: every listing was
\* issued before the deadline; none but the last one failed or showed a
\* completed run (of the ref, if given), and the call returns as soon as one
\* does: with 'error' after a failure, with the run's conclusion and id after
\* a completed run; it returns 'timeout' otherwise, at or after the deadline;
\* a conclusion or run id returned is that of a listed run of the ref.
C39_RightOutcome ==
  /\ \A i \in DOMAIN polls :
       /\ polls[i].at < deadline
       /\ i < Len(polls) =>
            /\ polls[i].out.settled
            /\ ~ListingFailed(polls[i].out)
            /\ ~ListingDecides(polls[i].out)
  /\ (polls # <<>> /\ ~PollReturned) =>
       /\ ~ListingFailed(polls[Len(polls)].out)
       /\ ~ListingDecides(polls[Len(polls)].out)
       /\ ~polls[Len(polls)].out.settled <=> ppc = "exec"
  /\ PollReturned =>
       IF polls # <<>> /\ ListingFailed(polls[Len(polls)].out)
       THEN pollResult.status = "error"
       ELSE IF polls # <<>> /\ ListingDecides(polls[Len(polls)].out)
       THEN LET latest == polls[Len(polls)].out.runs[1]
            IN  /\ pollResult.status = latest.conclusion
                /\ pollResult.conclusion = latest.conclusion
                /\ pollResult.runId = latest.databaseId
       ELSE /\ pollResult.status = "timeout"
            /\ clock >= deadline
            /\ \A i \in DOMAIN polls : polls[i].out.settled
  /\ (PollReturned /\ pollResult.status # "error" /\ pollResult.runId # 0) =>
       \E i \in DOMAIN polls :
         /\ ListingOfRef(polls[i].out)
         /\ polls[i].out.runs[1].databaseId = pollResult.runId
         /\ polls[i].out.runs[1].conclusion = pollResult.conclusion

\* C39: with the clock advancing and every listing settling, every call of
\* pollGithubDeployment returns, and what it returns is what its listings call
\* for: 'error' at the first listing or parse failure, the run's outcome at
\* the first listing that shows a completed latest run (on ref, when a ref is
\* given), 'timeout' when the deadline passes without either; nothing returned
\* is taken from a run on another branch than a given ref.
C39_PollTerminatesRight ==
  /\ []C39_RightOutcome
  /\ (ppc = "while") ~> PollReturned

\* With ref main: a completed run on dev was listed, then the run on main in
\* progress, then the run on main completed, whose outcome was returned.
C39_Witness ==
  /\ PollReturned
  /\ pollParams.ref = <<"main">>
  /\ Len(polls) = 3
  /\ polls[1].out.runs # <<>> /\ polls[1].out.runs[1].headBranch = <<"dev">>
  /\ polls[1].out.runs[1].status = "completed"
  /\ polls[2].out.runs # <<>> /\ polls[2].out.runs[1].status = "in_progress"
  /\ pollResult.status = "failure"
  /\ pollResult.runId = 1

\* A call returned 'timeout' with the conclusion and id of the last run
\* listed on ref.
C39_WitnessTimeout ==
  /\ PollReturned
  /\ pollResult.status = "timeout"
  /\ pollParams.ref = <<"main">>
  /\ pollResult.runId = 1
  /\ \E i \in DOMAIN polls :
       polls[i].out.runs # <<>> /\ polls[i].out.runs[1].headBranch = <<"dev">>

\* A call returned 'error' after a listing that went through.
C39_WitnessError ==
  /\ PollReturned
  /\ pollResult.status = "error"
  /\ Len(polls) >= 2

\* A listing issued before the deadline settled after it, and its completed
\* run was returned.
C39_WitnessLateListing ==
  /\ PollReturned
  /\ clock > deadline
  /\ pollResult.status = "success"

\* C40: the status pollGithubDeployment returns is one of 'success',
\* 'failure', 'cancelled', 'timeout' and 'error'.
C40_StatusDomain ==
  PollReturned => pollResult.status \in {"success", "failure", "cancelled", "timeout", "error"}

\* The statuses a call can return are the five declared and every other
\* conclusion of a completed run.
C40_StatusIsDeclaredOrConclusion ==
  PollReturned =>
    pollResult.status \in {"success", "failure", "cancelled", "timeout", "error"} \cup Conclusions

\* The call returned status 'skipped', the conclusion of the completed run.
C40_ReturnedSkipped ==
  /\ PollReturned
  /\ pollResult.status = "skipped"
  /\ polls[Len(polls)].out.runs[1].conclusion = "skipped"
====
